---- MODULE Spec2Model ----
(***************************************************************************)
(* Crawl-and-enrichment engine of tiktokdata: the persisted store          *)
(* (shop_videos, shop_products, blacklisted_products, tiktok_handles), the *)
(* enrichment variants, the scrapers' upsert path, the fetch/retry         *)
(* routines and the handle lifecycle.                                      *)
(***************************************************************************)
EXTENDS Integers, Sequences, FiniteSets, TLC

\* ------------------------------------------------------------------------
\* Universe of the model
\* ------------------------------------------------------------------------
NULL == "NULL"            \* SQL NULL / JS null / undefined
UNSET == "UNSET"          \* a column that an upsert payload does not supply
Absent == -1              \* a numeric field that is undefined or null

Products == {"P1", "P2"}
Awemes == {"a1", "a2"}
Workers == {"w1"}

\* the values the scraped columns of a raw entry (caption, counters, urls)
\* may take, as one field
Vers == {"v1", "v2"}

MaxPageLen == 1
MaxDim == 6               \* widths and heights next to 1080 and 1920
MaxDuration == 1600       \* raw durations next to 15000

VARIABLES
  \* persisted store
  shop_videos,            \* set of video rows
  shop_products,          \* set of cache rows
  blacklisted_products,   \* set of product ids
  \* enrichment workers (one run loop each)
  epc, evariant, ebatch, epid, efetch, emeta, ehit, ecalls, eerr, ecached,
  \* scraper run (index.ts run / runHandleScrapeLoop / runParallelScrapeLoop)
  spc, sblacklist, stoInsert, supsertErr, ingested, soverwrote,
  \* environment of a run: what the upstream serves and which enrichment
  \* programs are deployed (fixed during a behaviour)
  feed, catalog, variants,
  \* runParallelEnrichment and its chunk of enrichProductDirect promises
  pool,
  \* the raw entry extractVideos is given and the two fields it derives
  entry,
  \* handle tables
  tiktok_handles, handle_scrape_history,
  \* crawl processes: a product-detail fetch routine, index.ts run,
  \* handleScraper.ts run, the parallel handle scraper's run, its workers
  \* (one scrapeHandleParallel per handle) and its RateLimitedQueue
  fetcher, hashtag, seq, par, pworker, queue, current,
  \* the drain loop (processQueue) of each rate-limited queue
  drain,
  \* history: wire calls of the current request, requests served, cycles
  \* run, consecutive quiet scrapes per handle
  wire, served, cycles, quiet,
  \* environment of the crawl: the programs deployed, the listings the
  \* upstream serves, how many leading requests it may fail, cycles per run
  deployed, source, faulty, cycleCap

envVars == <<feed, catalog, variants>>
storeVars == <<shop_videos, shop_products, blacklisted_products>>
enrichVars == <<epc, evariant, ebatch, epid, efetch, emeta, ehit, ecalls, eerr, ecached>>
scraperVars == <<spc, sblacklist, stoInsert, supsertErr, ingested, soverwrote>>
handleStore == <<tiktok_handles, handle_scrape_history>>
parVars == <<par, pworker, queue, current>>
crawlEnv == <<deployed, source, faulty, cycleCap>>
crawlVars == <<handleStore, fetcher, hashtag, seq, parVars, drain, wire, served, cycles, quiet, crawlEnv>>
\* what the crawl leaves alone of the store side
storeSide == <<shop_products, blacklisted_products, enrichVars, scraperVars, envVars, pool, entry>>

\* ------------------------------------------------------------------------
\* Store rows
\* ------------------------------------------------------------------------
NoMeta == [product_name |-> NULL, product_image |-> NULL, price |-> NULL, shop_name |-> NULL]

MetaOf(r) == [product_name |-> r.product_name, product_image |-> r.product_image,
              price |-> r.price, shop_name |-> r.shop_name]

VideoRow(id, pid, ver, m) ==
  [aweme_id |-> id, product_id |-> pid, ver |-> ver,
   product_name |-> m.product_name, product_image |-> m.product_image,
   price |-> m.price, shop_name |-> m.shop_name]

CacheRow(pid, m) ==
  [product_id |-> pid, product_name |-> m.product_name, product_image |-> m.product_image,
   price |-> m.price, shop_name |-> m.shop_name]

Ids(rows) == {r.aweme_id : r \in rows}

\* an upsert that writes every column of the row, the enrichment columns as
\* NULL
ReplaceRow(store, row) == VideoRow(row.aweme_id, row.product_id, row.ver, NoMeta)

\* supabase .upsert(rows, { onConflict: 'aweme_id' }): a row whose aweme_id is
\* stored has the supplied columns overwritten and the others kept; a new row
\* gets NULL in the columns the payload does not supply. The payload's columns
\* are aweme_id, product_id and the other scraped columns (ver); it never holds
\* product_name, product_image, price or shop_name.
MergeRow(store, row) ==
  LET old == {r \in store : r.aweme_id = row.aweme_id}
      base == IF old = {} THEN VideoRow(row.aweme_id, NULL, NULL, NoMeta)
              ELSE CHOOSE r \in old : TRUE
  IN [base EXCEPT !.product_id = row.product_id, !.ver = row.ver]

UpsertAsInsert(store, rows) ==
  store \cup {MergeRow({}, row) : row \in rows}

Upsert(store, rows) ==
  {r \in store : r.aweme_id \notin Ids(rows)} \cup {MergeRow(store, row) : row \in rows}

\* ------------------------------------------------------------------------
\* Product-detail payloads of the upstream API (data.products[])
\* A JS number is written as the string of its digits; original_price is a
\* string or undefined (UNSET), real_price a number or undefined (UNSET).
\* ------------------------------------------------------------------------
ProductFull == [title |-> "Widget", image |-> "img", original_price |-> "$9.90",
                real_price |-> UNSET, seller |-> "Shop"]
ProductSparse == [title |-> NULL, image |-> NULL, original_price |-> "",
                  real_price |-> "5", seller |-> NULL]

RespEmpty == [exhausted |-> FALSE, hasProducts |-> TRUE, products |-> <<>>]
RespFull == [exhausted |-> FALSE, hasProducts |-> TRUE, products |-> <<ProductFull>>]
RespSparse == [exhausted |-> FALSE, hasProducts |-> TRUE, products |-> <<ProductSparse>>]
Responses == {RespEmpty, RespFull, RespSparse}

\* what the fetch routine hands back when every attempt failed
Exhausted == [exhausted |-> TRUE, hasProducts |-> FALSE, products |-> <<>>]

\* !Array.isArray(productsArray) || productsArray.length === 0
NoProducts(d) == ~d.hasProducts \/ Len(d.products) = 0

\* String.prototype.match(/[\d.]+/)[0] on the price strings of the payloads
NumericMatch(s) == CASE s = "$9.90" -> "9.90"
                     [] s = "9.90" -> "9.90"
                     [] OTHER -> NULL
\* parseFloat(x).toString()
ParseFloatToString(s) == CASE s = "9.90" -> "9.9"
                           [] OTHER -> s
\* String.prototype.trim() !== ''
NonBlank(s) == s \notin {"", " "}

\* enricher.ts: price of enrichSingleProduct
PriceSingle(p) ==
  IF p.original_price # UNSET /\ NonBlank(p.original_price) THEN p.original_price
  ELSE IF p.real_price # UNSET THEN p.real_price
  ELSE NULL

\* index.ts: price of enrichProductParallel
PriceParallel(p) ==
  LET rawPrice == PriceSingle(p) IN
  IF rawPrice = NULL THEN NULL
  ELSE IF rawPrice = p.original_price
       THEN (IF NumericMatch(rawPrice) = NULL THEN NULL
             ELSE ParseFloatToString(NumericMatch(rawPrice)))
       ELSE rawPrice

\* index.ts: price of enrichProductDirect
PriceDirect(p) ==
  IF p.original_price # UNSET THEN NumericMatch(p.original_price)
  ELSE IF p.real_price # UNSET THEN p.real_price
  ELSE NULL

\* the fields extracted from data.products[0], per variant
ExtractMeta(variant, d) ==
  LET p == d.products[1] IN
  [product_name |-> p.title, product_image |-> p.image,
   price |-> CASE variant = "single" -> PriceSingle(p)
               [] variant = "parallel" -> PriceParallel(p)
               [] OTHER -> PriceDirect(p),
   shop_name |-> p.seller]

\* the fields enrichProductDirect writes to shop_videos after a fetch
DirectFallback(m) ==
  [product_name |-> IF m.product_name = NULL THEN "Unknown Product" ELSE m.product_name,
   product_image |-> m.product_image,
   price |-> IF m.price = NULL THEN "0" ELSE m.price,
   shop_name |-> IF m.shop_name = NULL THEN "Unknown Shop" ELSE m.shop_name]

\* .update({...}).eq('product_id', pid) on shop_videos
UpdateVideos(store, pid, m) ==
  {IF r.product_id = pid
   THEN [r EXCEPT !.product_name = m.product_name, !.product_image = m.product_image,
                  !.price = m.price, !.shop_name = m.shop_name]
   ELSE r : r \in store}

\* .delete().eq('product_id', pid) on shop_videos
DeleteVideos(store, pid) == {r \in store : r.product_id # pid}

\* a shop_products table without a key
InsertsAlways(cache, pid) == TRUE

\* .insert(row) on shop_products (product_id is the primary key): the store
\* refuses a second row for the same key
CanInsertProduct(cache, pid) == \A c \in cache : c.product_id # pid

\* the "needs enrichment" queries of runEnricher and runParallelEnrichment
MissingSingle(store) ==
  {r.product_id : r \in {v \in store : v.product_id # NULL /\
      (v.product_name = NULL \/ v.product_image = NULL \/ v.price = NULL \/ v.shop_name = NULL)}}
MissingParallel(store) ==
  {r.product_id : r \in {v \in store : v.product_id # NULL /\
      (v.product_name = NULL \/ v.product_image = NULL \/ v.shop_name = NULL)}}

\* ------------------------------------------------------------------------
\* Enrichment: runEnricher / runParallelEnrichment and the three variants
\*   "single"   enrichSingleProduct   (enricher.ts)
\*   "parallel" enrichProductParallel (index.ts)
\*   "direct"   enrichProductDirect   (index.ts)
\* One action per awaited store or upstream call.
\* ------------------------------------------------------------------------
Variants == {"single", "parallel", "direct"}

EnrichInit ==
  /\ epc = [w \in Workers |-> "idle"]
  /\ evariant = [w \in Workers |-> "single"]
  /\ ebatch = [w \in Workers |-> {}]
  /\ epid = [w \in Workers |-> NULL]
  /\ efetch = [w \in Workers |-> "none"]
  /\ emeta = [w \in Workers |-> NoMeta]
  /\ ehit = [w \in Workers |-> FALSE]
  /\ ecalls = [w \in Workers |-> 0]
  /\ eerr = [w \in Workers |-> FALSE]
  /\ ecached = [w \in Workers |-> FALSE]

\* the run loop selects the product ids that need enrichment; a query error or
\* an empty result leaves the loop sleeping
RunQuery(w) ==
  /\ epc[w] = "idle"
  /\ \E variant \in variants, ok \in BOOLEAN :
       LET ids == IF variant = "single" THEN MissingSingle(shop_videos)
                  ELSE MissingParallel(shop_videos)
       IN IF ok /\ ids # {}
          THEN /\ evariant' = [evariant EXCEPT ![w] = variant]
               /\ ebatch' = [ebatch EXCEPT ![w] = ids]
               /\ epc' = [epc EXCEPT ![w] = "pick"]
          ELSE UNCHANGED <<evariant, ebatch, epc>>
  /\ UNCHANGED <<epid, efetch, emeta, ehit, ecalls, eerr, ecached>>
  /\ UNCHANGED <<storeVars, scraperVars, envVars, pool, entry, crawlVars>>

\* for (const pid of uniqueProductIds) enrich(pid): entry of one enrichment
EnrichStart(w) ==
  /\ epc[w] = "pick"
  /\ ebatch[w] # {}
  /\ \E pid \in ebatch[w] :
       /\ epid' = [epid EXCEPT ![w] = pid]
       /\ ebatch' = [ebatch EXCEPT ![w] = @ \ {pid}]
       /\ ecached' = [ecached EXCEPT ![w] = ~CanInsertProduct(shop_products, pid)]
  /\ epc' = [epc EXCEPT ![w] = "cache"]
  /\ UNCHANGED <<evariant, efetch, emeta, ehit, ecalls, eerr>>
  /\ UNCHANGED <<storeVars, scraperVars, envVars, pool, entry, crawlVars>>

\* the enrichment of epid[w] has returned; its locals go out of scope
EnrichReturn(w) ==
  /\ epc[w] = "done"
  /\ epc' = [epc EXCEPT ![w] = "pick"]
  /\ epid' = [epid EXCEPT ![w] = NULL]
  /\ efetch' = [efetch EXCEPT ![w] = "none"]
  /\ emeta' = [emeta EXCEPT ![w] = NoMeta]
  /\ ehit' = [ehit EXCEPT ![w] = FALSE]
  /\ ecalls' = [ecalls EXCEPT ![w] = 0]
  /\ eerr' = [eerr EXCEPT ![w] = FALSE]
  /\ ecached' = [ecached EXCEPT ![w] = FALSE]
  /\ UNCHANGED <<evariant, ebatch>>
  /\ UNCHANGED <<storeVars, scraperVars, envVars, pool, entry, crawlVars>>

BatchDone(w) ==
  /\ epc[w] = "pick"
  /\ ebatch[w] = {}
  /\ epc' = [epc EXCEPT ![w] = "idle"]
  /\ evariant' = [evariant EXCEPT ![w] = "single"]
  /\ UNCHANGED <<ebatch, epid, efetch, emeta, ehit, ecalls, eerr, ecached>>
  /\ UNCHANGED <<storeVars, scraperVars, envVars, pool, entry, crawlVars>>

\* step 1: read shop_products
CacheRead(w) ==
  /\ epc[w] = "cache"
  /\ \E ok \in BOOLEAN :
       LET rows == {c \in shop_products : c.product_id = epid[w]} IN
       IF ~ok
       THEN \* a read error: enrichSingleProduct and enrichProductParallel return,
            \* enrichProductDirect reads no error and goes on as on a miss
            /\ eerr' = [eerr EXCEPT ![w] = TRUE]
            /\ epc' = [epc EXCEPT ![w] = IF evariant[w] = "direct" THEN "fetch" ELSE "done"]
            /\ UNCHANGED <<emeta, ehit>>
       ELSE IF rows # {}
       THEN /\ ehit' = [ehit EXCEPT ![w] = TRUE]
            /\ \E c \in rows : emeta' = [emeta EXCEPT ![w] = MetaOf(c)]
            /\ epc' = [epc EXCEPT ![w] = IF evariant[w] = "parallel" THEN "done" ELSE "update"]
            /\ UNCHANGED eerr
       ELSE /\ epc' = [epc EXCEPT ![w] = "fetch"]
            /\ UNCHANGED <<emeta, ehit, eerr>>
  /\ UNCHANGED <<evariant, ebatch, epid, efetch, ecalls, ecached>>
  /\ UNCHANGED <<storeVars, scraperVars, envVars, pool, entry, crawlVars>>

\* step 2: the product-detail fetch (with its retries) returns null or a payload
FetchDetail(w) ==
  /\ epc[w] = "fetch"
  /\ \E d \in {catalog[epid[w]], Exhausted} :
       IF d.exhausted \/ NoProducts(d)
       THEN /\ efetch' = [efetch EXCEPT ![w] = IF d.exhausted THEN "exhausted" ELSE "malformed"]
            /\ epc' = [epc EXCEPT ![w] = "delete"]
            /\ UNCHANGED emeta
       ELSE /\ efetch' = [efetch EXCEPT ![w] = "ok"]
            /\ epc' = [epc EXCEPT ![w] = "insert"]
            /\ emeta' = [emeta EXCEPT ![w] = ExtractMeta(evariant[w], d)]
  /\ ecalls' = [ecalls EXCEPT ![w] = 1]
  /\ UNCHANGED <<evariant, ebatch, epid, ehit, eerr, ecached>>
  /\ UNCHANGED <<storeVars, scraperVars, envVars, pool, entry, crawlVars>>

\* step 3a: delete the referencing videos; the result is not part of the
\* control flow (single logs it, parallel and direct do not read it)
DeleteReferencing(w) ==
  /\ epc[w] = "delete"
  /\ \E ok \in BOOLEAN :
       IF ok THEN /\ shop_videos' = DeleteVideos(shop_videos, epid[w])
                  /\ UNCHANGED eerr
       ELSE /\ UNCHANGED shop_videos
            /\ eerr' = [eerr EXCEPT ![w] = TRUE]
  /\ epc' = [epc EXCEPT ![w] = IF evariant[w] = "direct" THEN "done" ELSE "blacklist"]
  /\ UNCHANGED <<evariant, ebatch, epid, efetch, emeta, ehit, ecalls, ecached>>
  /\ UNCHANGED <<shop_products, blacklisted_products, scraperVars, envVars, pool, entry, crawlVars>>

\* step 3b: insert into blacklisted_products (also the last step of a
\* successful enrichProductParallel, "Mark as processed")
BlacklistInsert(w) ==
  /\ epc[w] = "blacklist"
  /\ \E ok \in BOOLEAN :
       IF ok /\ epid[w] \notin blacklisted_products
       THEN /\ blacklisted_products' = blacklisted_products \cup {epid[w]}
            /\ UNCHANGED eerr
       ELSE /\ UNCHANGED blacklisted_products
            /\ eerr' = [eerr EXCEPT ![w] = TRUE]
  /\ epc' = [epc EXCEPT ![w] = "done"]
  /\ UNCHANGED <<evariant, ebatch, epid, efetch, emeta, ehit, ecalls, ecached>>
  /\ UNCHANGED <<shop_videos, shop_products, scraperVars, envVars, pool, entry, crawlVars>>

\* step 4: insert the cache row
CacheInsert(w) ==
  /\ epc[w] = "insert"
  /\ \E ok \in BOOLEAN :
       IF ok /\ CanInsertProduct(shop_products, epid[w])
       THEN /\ shop_products' = shop_products \cup {CacheRow(epid[w], emeta[w])}
            /\ UNCHANGED eerr
       ELSE /\ UNCHANGED shop_products
            /\ eerr' = [eerr EXCEPT ![w] = TRUE]
  /\ epc' = [epc EXCEPT ![w] = "update"]
  /\ UNCHANGED <<evariant, ebatch, epid, efetch, emeta, ehit, ecalls, ecached>>
  /\ UNCHANGED <<shop_videos, blacklisted_products, scraperVars, envVars, pool, entry, crawlVars>>

\* step 5: propagate the fields to every referencing video
VideoFields(w) ==
  IF evariant[w] = "direct" /\ ~ehit[w] THEN DirectFallback(emeta[w]) ELSE emeta[w]

UpdateReferencing(w) ==
  /\ epc[w] = "update"
  /\ \E ok \in BOOLEAN :
       IF ok THEN /\ shop_videos' = UpdateVideos(shop_videos, epid[w], VideoFields(w))
                  /\ UNCHANGED eerr
       ELSE /\ UNCHANGED shop_videos
            /\ eerr' = [eerr EXCEPT ![w] = TRUE]
  /\ epc' = [epc EXCEPT ![w] = IF evariant[w] = "parallel" THEN "blacklist" ELSE "done"]
  /\ UNCHANGED <<evariant, ebatch, epid, efetch, emeta, ehit, ecalls, ecached>>
  /\ UNCHANGED <<shop_products, blacklisted_products, scraperVars, envVars, pool, entry, crawlVars>>

\* ------------------------------------------------------------------------
\* Scraper runs as seen by the store: load the blacklist once, then for each
\* fetched page filter and upsert
\* (index.ts run / scrapeHashtag, handleScraper.ts runHandleScrapeLoop /
\* scrapeHandle, runParallelScrapeLoop / scrapeHandleParallel: the same path)
\* ------------------------------------------------------------------------

\* the records extractVideos returns for a page: one per aweme_id
RawEntries == [product_id : Products \cup {NULL}, ver : Vers]
\* the pages the upstream can serve from the entries fd: at most MaxPageLen
\* entries, one per aweme_id
RawPages(fd) ==
  {pg \in UNION {[S -> RawEntries] : S \in {T \in SUBSET Awemes : Cardinality(T) <= MaxPageLen}} :
     \A a \in DOMAIN pg : [aweme_id |-> a, product_id |-> pg[a].product_id, ver |-> pg[a].ver] \in fd}
AllEntries == [aweme_id : Awemes, product_id : Products \cup {NULL}, ver : Vers]

\* .filter(v => v.shop).filter(product_id && !blacklist.has(product_id)).map(...)
ToInsert(page, blacklist) ==
  {[aweme_id |-> a, product_id |-> page[a].product_id, ver |-> page[a].ver] :
     a \in {x \in DOMAIN page : page[x].product_id # NULL /\ page[x].product_id \notin blacklist}}

ScraperInit ==
  /\ spc = "idle"
  /\ sblacklist = {}
  /\ stoInsert = {}
  /\ supsertErr = FALSE
  /\ ingested = {}
  /\ soverwrote = FALSE

\* fetchBlacklistedIds once per run: a read error yields the empty set
ScraperStart ==
  /\ spc = "idle"
  /\ \E ok \in BOOLEAN :
       sblacklist' = IF ok THEN blacklisted_products ELSE {}
  /\ spc' = "page"
  /\ UNCHANGED <<stoInsert, supsertErr, ingested, soverwrote>>
  /\ UNCHANGED <<storeVars, enrichVars, envVars, pool, entry, crawlVars>>

\* a page arrives and is extracted and filtered
ScraperPage ==
  /\ spc = "page"
  /\ \E page \in RawPages(feed) :
       LET rows == ToInsert(page, sblacklist) IN
       /\ stoInsert' = rows
       /\ spc' = IF rows # {} THEN "upsert" ELSE "page"
       /\ ingested' = ingested \cup Ids(rows)
  /\ supsertErr' = FALSE
  /\ soverwrote' = FALSE
  /\ UNCHANGED <<sblacklist>>
  /\ UNCHANGED <<storeVars, enrichVars, envVars, pool, entry, crawlVars>>

\* if (toInsert.length > 0) await supabase.from('shop_videos').upsert(toInsert)
ScraperUpsert ==
  /\ spc = "upsert"
  /\ \E ok \in BOOLEAN :
       /\ supsertErr' = ~ok
       /\ shop_videos' = IF ok THEN Upsert(shop_videos, stoInsert) ELSE shop_videos
       \* history: the upsert overwrote the scraped columns of a stored row
       /\ soverwrote' = (ok /\ \E row \in stoInsert, r \in shop_videos :
                                 r.aweme_id = row.aweme_id /\ r.ver # row.ver)
  /\ spc' = "page"
  /\ stoInsert' = {}
  /\ UNCHANGED <<sblacklist, ingested>>
  /\ UNCHANGED <<shop_products, blacklisted_products, enrichVars, envVars, pool, entry, crawlVars>>

\* the source is exhausted and the run ends
ScraperEnd ==
  /\ spc = "page"
  /\ spc' = "idle"
  /\ sblacklist' = {}
  /\ supsertErr' = FALSE
  /\ soverwrote' = FALSE
  /\ UNCHANGED <<stoInsert, ingested>>
  /\ UNCHANGED <<storeVars, enrichVars, envVars, pool, entry, crawlVars>>

\* ------------------------------------------------------------------------
\* Crawl: the fetch/retry routines, the three scrapers and the handle
\* lifecycle, wire call by wire call
\* ------------------------------------------------------------------------
\* configuration constants of the programs
COUNT == 20
MAX_PAGES == 1000
MAX_PAGE_ATTEMPTS == 3
MAX_PRODUCT_RETRIES == 10
MAX_RETRIES == 10
MAX_PAGES_PER_HANDLE == 50
MAX_RETRIES_PER_PAGE == 3
MAX_CONSECUTIVE_FAILURES == 5
INACTIVE_DAYS_THRESHOLD == 7
NO_SHOP_DAYS_THRESHOLD == 14
MIN_SHOP_RATIO_PERCENT == 10
MIN_VIDEOS_FOR_RATIO == 50
PAR_MAX_PAGES_PER_HANDLE == 30
PAR_MAX_RETRIES_PER_PAGE == 2
\* durations, in thirds of a millisecond (REQUEST_INTERVAL = 1000 / 15 ms)
REQUEST_INTERVAL == 200
RETRY_DELAY == 6000
RETRY_DELAY_MIN == 900
RETRY_DELAY_MAX == 1500
RATE_LIMIT_BACKOFF == 90000

\* bounds of the environment
Max429 == 11            \* 429 answers the upstream gives to one request
FaultyRequests == 1     \* leading requests (and cycles) of a process that may meet faults
MaxSourcePages == 2     \* non-empty pages of a source
CrawlCycles == 2        \* cycles of a run loop under faults
MaxCycles == 8          \* cycles of a run loop without faults
RecoverBy == 2          \* the attempt by which a failing product-detail endpoint recovers, if it does
OverlapCycles == 1      \* cycles of each of two overlapping handle scrapers
NoShopCycles == 14      \* cycles of a run loop that counts a no-shop streak
MaxSinceMs == 67        \* milliseconds from the completion of a request to the next dispatch

Usernames == {"u1", "u2"}
SourceIds == {"tag"} \cup Usernames
Processes == {"fetch", "hashtag", "seq", "par"}
FetchRoutines == {"fetchProductDetailsWithRetry", "fetchProductDetails",
                  "fetchProductDetailsDirectly"}

\* extractVideos: the username column of the record of an aweme (its author)
Author(a) == IF a = "a1" THEN "u1" ELSE "u2"

\* -------------------------- upstream ------------------------------------
\* a page of a listing endpoint: aweme_list (as extracted, one record per
\* aweme_id), whether some create_time lies within the last 24h, has_more
EmptyPage == [list |-> [a \in {} |-> [product_id |-> NULL, ver |-> "v1"]],
              recent |-> FALSE, has_more |-> 0]

\* the page served for ?offset=..&count=COUNT
PageAt(src, offset) ==
  LET i == (offset \div COUNT) + 1 IN
  IF i <= Len(src) THEN src[i] ELSE EmptyPage

\* a source of n pages, each listing aweme a (product p, recent or not); the
\* last page carries has_more = m
SourceOf(a, n, p, rc, m) ==
  [i \in 1..n |-> [list |-> [x \in {a} |-> [product_id |-> p, ver |-> "v1"]],
                   recent |-> rc, has_more |-> IF i < n THEN 1 ELSE m]]

\* the sources of the model: old shop videos ending with has_more = 0, and
\* recent videos without a product whose last page says has_more = 1
SourceKinds == {[p |-> "P1", rc |-> FALSE, m |-> 0], [p |-> NULL, rc |-> TRUE, m |-> 1]}

SourcesOf(a) ==
  {SourceOf(a, n, k.p, k.rc, k.m) : n \in 0..MaxSourcePages, k \in SourceKinds}

DefaultSource ==
  [s \in SourceIds |-> IF s = "u2" THEN SourceOf("a2", 1, "P1", TRUE, 0) ELSE <<>>]

\* history of the wire calls of the request a process is making
NoWire == [calls |-> 0, n429 |-> 0, n5xx |-> 0, hard |-> 0, afterHard |-> 0,
           outcome |-> "pending"]

CurrentWire(p) == IF wire[p].outcome = "pending" THEN wire[p] ELSE NoWire

Received(p, st) ==
  LET r == CurrentWire(p) IN
  [r EXCEPT !.calls = @ + 1,
            !.n429 = IF st = 429 THEN @ + 1 ELSE @,
            !.n5xx = IF st \in {500, 503} THEN @ + 1 ELSE @,
            !.hard = IF @ = 0 /\ st \in {404, 403} THEN st ELSE @,
            !.afterHard = IF r.hard # 0 THEN @ + 1 ELSE @]

\* the HTTP status the upstream returns to a wire call of process p
Answers(p) ==
  {200} \cup (IF served[p] < faulty[p]
              THEN {404, 403, 500, 503} \cup
                   (IF CurrentWire(p).n429 < Max429 THEN {429} ELSE {})
              ELSE {})

\* the outcomes of a store call of process p: TRUE when it returns no error
StoreOk(p) == IF cycles[p] < faulty[p] THEN BOOLEAN ELSE {TRUE}

\* the request of process p ends with outcome o
Settle(p, st, o) ==
  /\ wire' = [wire EXCEPT ![p] = [Received(p, st) EXCEPT !.outcome = o]]
  /\ served' = [served EXCEPT ![p] = IF @ < faulty[p] THEN @ + 1 ELSE @]

\* the request of process p goes on to another wire call
Pending(p, st) ==
  /\ wire' = [wire EXCEPT ![p] = Received(p, st)]
  /\ UNCHANGED served

\* -------------------------- tiktok_handles ------------------------------
\* a JS number that is the quotient of two counts
Quotient(a, b) == [num |-> a, den |-> b]
\* the JS number 0
Zero == Quotient(0, 1)

\* a ratio taken over the videos of the current scrape alone
RatioOfScrape(handle, totalVideos, shopVideos) ==
  IF totalVideos > 0 THEN Quotient(shopVideos, totalVideos) ELSE Zero

\* newShopRatio = newTotalVideos > 0 ? newShopVideos / newTotalVideos : 0
NewShopRatio(handle, totalVideos, shopVideos) ==
  IF handle.total_videos_found + totalVideos > 0
  THEN Quotient(handle.shop_videos_found + shopVideos, handle.total_videos_found + totalVideos)
  ELSE Zero

\* discoverHandlesFromVideos: the row inserted for a username
NewHandle(u) ==
  [username |-> u, status |-> "active", total_videos_found |-> 0,
   shop_videos_found |-> 0, shop_ratio |-> Zero, consecutive_days_no_shop |-> 0,
   consecutive_days_no_posts |-> 0, discovery_source |-> "hashtag"]

NoHandle == [NewHandle(NULL) EXCEPT !.status = "none"]

\* .update({ status }).eq('username', username)
SetStatus(table, u, status) ==
  {IF r.username = u THEN [r EXCEPT !.status = status] ELSE r : r \in table}

\* newShopRatio < MIN_SHOP_RATIO, with newShopRatio = total > 0 ? shop / total : 0
LowRatio(shop, total) ==
  IF total > 0 THEN 100 * shop < MIN_SHOP_RATIO_PERCENT * total ELSE TRUE

\* handleScraper.ts updateHandleStats: the columns written, from the row read
\* at the start of the cycle (discovery_source is not among them)
StatsAfter(handle, totalVideos, shopVideos, hasRecentPosts) ==
  LET newTotalVideos == handle.total_videos_found + totalVideos
      newShopVideos == handle.shop_videos_found + shopVideos
      consecutiveDaysNoShop == IF shopVideos > 0 THEN 0 ELSE handle.consecutive_days_no_shop + 1
      consecutiveDaysNoPosts == IF hasRecentPosts THEN 0 ELSE handle.consecutive_days_no_posts + 1
      status == IF consecutiveDaysNoPosts >= INACTIVE_DAYS_THRESHOLD THEN "removed"
                ELSE IF consecutiveDaysNoShop >= NO_SHOP_DAYS_THRESHOLD THEN "removed"
                ELSE IF LowRatio(newShopVideos, newTotalVideos) /\ newTotalVideos > MIN_VIDEOS_FOR_RATIO
                     THEN "removed"
                ELSE handle.status
  IN [username |-> handle.username, status |-> status,
      total_videos_found |-> newTotalVideos, shop_videos_found |-> newShopVideos,
      shop_ratio |-> NewShopRatio(handle, totalVideos, shopVideos),
      consecutive_days_no_shop |-> consecutiveDaysNoShop,
      consecutive_days_no_posts |-> consecutiveDaysNoPosts,
      discovery_source |-> handle.discovery_source]

\* updateHandleStats of handleScraper.ts: every column of the row, status too
UpdateHandleStats(table, handle, totalVideos, shopVideos, hasRecentPosts) ==
  {IF r.username = handle.username
   THEN [StatsAfter(handle, totalVideos, shopVideos, hasRecentPosts)
           EXCEPT !.discovery_source = r.discovery_source]
   ELSE r : r \in table}

\* updateHandleStats of the parallel handle scraper: the same counters, and
\* no status column in the update
UpdateHandleStatsParallel(table, handle, totalVideos, shopVideos, hasRecentPosts) ==
  {IF r.username = handle.username
   THEN [StatsAfter(handle, totalVideos, shopVideos, hasRecentPosts)
           EXCEPT !.status = r.status, !.discovery_source = r.discovery_source]
   ELSE r : r \in table}

\* logScrapeResult: one row of handle_scrape_history (id is a serial)
Logged(history, u, success, videos, shopVideos, pages) ==
  history \cup {[id |-> Cardinality(history) + 1, username |-> u, success |-> success,
                 videos_found |-> videos, shop_videos_found |-> shopVideos,
                 pages_scraped |-> pages]}

\* consecutive successful no-recent-post scrapes of a handle since its stored
\* streak was zero; -1 after a failed scrape or a failed write
QuietAfter(q, success, hasRecentPosts) ==
  IF ~success THEN -1
  ELSE IF hasRecentPosts THEN 0
  ELSE IF q < 0 THEN -1
  ELSE q + 1

ShopCount(list) == Cardinality({a \in DOMAIN list : list[a].product_id # NULL})

\* -------------------------- product-detail fetch routines ----------------
\* gap: the time from the completion of the wire call before to the start of
\* the wire call the routine is about to make
FetcherIdle == [pc |-> "idle", routine |-> "none", attempt |-> 0, gap |-> 0]

\* Date.now() - lastRequestTime when a queue takes its next request: a
\* whole number of milliseconds since the request before was completed;
\* lastRequestTime is 0 until then
SinceLast(p) ==
  IF wire[p] = NoWire THEN {RATE_LIMIT_BACKOFF}
  ELSE {3 * ms : ms \in {0, 1, MaxSinceMs - 1, MaxSinceMs}}

\* a queue that dispatches without the sleep
Unpaced(timeSinceLastRequest) == timeSinceLastRequest

\* processQueue: if (timeSinceLastRequest < REQUEST_INTERVAL)
\* await sleep(REQUEST_INTERVAL - timeSinceLastRequest); the time since
\* lastRequestTime at which the request is dispatched
Paced(timeSinceLastRequest) ==
  IF timeSinceLastRequest < REQUEST_INTERVAL
  THEN timeSinceLastRequest + (REQUEST_INTERVAL - timeSinceLastRequest)
  ELSE timeSinceLastRequest

\* the queue instances: ProductEnrichmentQueue (index.ts) serves the process
\* "fetch", RateLimitedQueue (requestQueue) the process "par"
Queues == {"fetch", "par"}

\* processing, and the number of processQueue calls that are in their loop
DrainIdle == [processing |-> FALSE, loops |-> 0]

\* a processQueue that does not test this.processing
ProcessQueueUnguarded(d, q) ==
  IF q = <<>> THEN d ELSE [processing |-> TRUE, loops |-> d.loops + 1]

\* processQueue called by addRequest / addProduct after its push:
\* if (this.processing || this.queue.length === 0) return; this.processing = true
ProcessQueue(d, q) ==
  IF d.processing \/ q = <<>> THEN d ELSE [processing |-> TRUE, loops |-> d.loops + 1]

\* a loop that ends after one request
LoopOnce(d, q) == [processing |-> FALSE, loops |-> d.loops - 1]

\* processQueue after a request is settled: while (this.queue.length > 0)
\* is tested again, and this.processing = false when the queue is empty
LoopTest(d, q) ==
  IF q # <<>> THEN d ELSE [processing |-> FALSE, loops |-> d.loops - 1]

\* a loop that takes the request pushed last
Pop(q) == [request |-> q[Len(q)], rest |-> SubSeq(q, 1, Len(q) - 1)]

\* const request = this.queue.shift()
Shift(q) == [request |-> Head(q), rest |-> Tail(q)]

\* a caller invokes one of the deployed routines for a product
FetchStart ==
  /\ fetcher.pc = "idle"
  /\ cycles["fetch"] < cycleCap
  /\ \E rt \in deployed \cap FetchRoutines :
       \E since \in (IF rt = "fetchProductDetails" THEN SinceLast("fetch") ELSE {0}) :
         /\ fetcher' = [pc |-> "call", routine |-> rt,
                        attempt |-> IF rt = "fetchProductDetails" THEN 0 ELSE 1,
                        gap |-> IF rt = "fetchProductDetails" THEN Paced(since) ELSE 0]
         \* addProduct: the push, then processQueue takes the product
         /\ drain' = IF rt = "fetchProductDetails"
                     THEN [drain EXCEPT !["fetch"] = ProcessQueue(@, <<rt>>)]
                     ELSE drain
  /\ UNCHANGED <<wire, served, cycles, quiet>>
  /\ UNCHANGED <<hashtag, seq, parVars, handleStore, crawlEnv, shop_videos, storeSide>>

\* a loop that does not count an attempt answered 500
WithRetryUnbounded(attempt, st) == IF st = 500 THEN attempt ELSE attempt + 1

\* the budget of fetchProductDetailsWithRetry: every failed attempt counts
WithRetryAttempt(attempt, st) == attempt + 1

\* enricher.ts fetchProductDetailsWithRetry: one pass of the for loop
WithRetryCall ==
  /\ fetcher.pc = "call"
  /\ fetcher.routine = "fetchProductDetailsWithRetry"
  /\ \E st \in Answers("fetch") :
       IF st = 200
       THEN /\ fetcher' = [fetcher EXCEPT !.pc = "returned"]
            /\ Settle("fetch", st, "ok")
       ELSE IF fetcher.attempt < MAX_PRODUCT_RETRIES
       THEN /\ fetcher' = [fetcher EXCEPT !.attempt = WithRetryAttempt(@, st)]
            /\ Pending("fetch", st)
       ELSE /\ fetcher' = [fetcher EXCEPT !.pc = "returned"]
            /\ Settle("fetch", st, "null")
  /\ UNCHANGED <<cycles, quiet>>
  /\ UNCHANGED <<hashtag, seq, parVars, handleStore, crawlEnv, drain, shop_videos, storeSide>>

\* index.ts ProductEnrichmentQueue.fetchProductDetails: one pass of the while
\* loop (attempt holds retries)
QueueFetchCall ==
  /\ fetcher.pc = "call"
  /\ fetcher.routine = "fetchProductDetails"
  /\ \E st \in Answers("fetch") :
       IF st = 200
       THEN /\ fetcher' = [fetcher EXCEPT !.pc = "returned"]
            /\ Settle("fetch", st, "ok")
            /\ drain' = [drain EXCEPT !["fetch"] = LoopTest(@, <<>>)]
       ELSE IF st = 429
       THEN /\ fetcher' = [fetcher EXCEPT !.gap = RATE_LIMIT_BACKOFF]
            /\ Pending("fetch", st)
            /\ UNCHANGED drain
       ELSE IF fetcher.attempt + 1 < MAX_RETRIES
       THEN /\ \E delay \in {RETRY_DELAY_MIN, RETRY_DELAY_MAX} :
                 fetcher' = [fetcher EXCEPT !.attempt = @ + 1, !.gap = delay]
            /\ Pending("fetch", st)
            /\ UNCHANGED drain
       ELSE /\ fetcher' = [fetcher EXCEPT !.attempt = @ + 1, !.pc = "returned"]
            /\ Settle("fetch", st, "null")
            /\ drain' = [drain EXCEPT !["fetch"] = LoopTest(@, <<>>)]
  /\ UNCHANGED <<cycles, quiet>>
  /\ UNCHANGED <<hashtag, seq, parVars, handleStore, crawlEnv, shop_videos, storeSide>>

\* index.ts fetchProductDetailsDirectly: one pass of the for loop; a 429 only
\* changes the sleep, the attempt is spent
DirectCall ==
  /\ fetcher.pc = "call"
  /\ fetcher.routine = "fetchProductDetailsDirectly"
  /\ \E st \in Answers("fetch") :
       IF st = 200
       THEN /\ fetcher' = [fetcher EXCEPT !.pc = "returned"]
            /\ Settle("fetch", st, "ok")
       ELSE IF fetcher.attempt < MAX_RETRIES
       THEN /\ fetcher' = [fetcher EXCEPT !.attempt = @ + 1]
            /\ Pending("fetch", st)
       ELSE /\ fetcher' = [fetcher EXCEPT !.pc = "returned"]
            /\ Settle("fetch", st, "null")
  /\ UNCHANGED <<cycles, quiet>>
  /\ UNCHANGED <<hashtag, seq, parVars, handleStore, crawlEnv, drain, shop_videos, storeSide>>

\* the caller takes the result
FetchReturn ==
  /\ fetcher.pc = "returned"
  /\ fetcher' = FetcherIdle
  /\ cycles' = [cycles EXCEPT !["fetch"] = @ + 1]
  /\ UNCHANGED <<wire, served, quiet>>
  /\ UNCHANGED <<hashtag, seq, parVars, handleStore, crawlEnv, drain, shop_videos, storeSide>>

\* -------------------------- index.ts: run / scrapeHashtag ----------------
HashtagIdle == [pc |-> "idle", blacklist |-> {}, offset |-> 0, pageCount |-> 0,
                attempt |-> 0, ended |-> FALSE, afterEnd |-> 0]

\* run: fetchHashtagIDs (an error or no hashtag ends the program)
HashtagRun ==
  /\ hashtag.pc = "idle"
  /\ "scrapeHashtag" \in deployed
  /\ \E ok \in StoreOk("hashtag") :
       hashtag' = [hashtag EXCEPT !.pc = IF ok THEN "blacklist" ELSE "exited"]
  /\ UNCHANGED <<wire, served, cycles, quiet>>
  /\ UNCHANGED <<fetcher, seq, parVars, handleStore, crawlEnv, drain, shop_videos, storeSide>>

\* run: fetchBlacklistedIds, then scrapeHashtag is entered
HashtagBlacklist ==
  /\ hashtag.pc = "blacklist"
  /\ \E ok \in StoreOk("hashtag") :
       hashtag' = [hashtag EXCEPT !.pc = "page",
                                  !.blacklist = IF ok THEN blacklisted_products ELSE {}]
  /\ UNCHANGED <<wire, served, cycles, quiet>>
  /\ UNCHANGED <<fetcher, seq, parVars, handleStore, crawlEnv, drain, shop_videos, storeSide>>

\* top of while (true): the page cap, then a fresh retry loop
HashtagLoop(h) ==
  IF h.pageCount >= MAX_PAGES THEN [h EXCEPT !.pc = "exited"]
  ELSE [h EXCEPT !.attempt = 0]

\* the catch block's budget: attempt++ on every error
HashtagAttempt(attempt, st) == attempt + 1

\* scrapeHashtag: one wire call of the retry loop and what follows it up to
\* the next wire call
HashtagCall ==
  /\ hashtag.pc = "page"
  /\ \E st \in Answers("hashtag") :
       LET pg == PageAt(source["tag"], hashtag.offset)
           rows == ToInsert(pg.list, hashtag.blacklist)
           end == DOMAIN pg.list = {} \/ pg.has_more = 0
           counted == [hashtag EXCEPT !.afterEnd = IF hashtag.ended THEN @ + 1 ELSE @]
           attempt == HashtagAttempt(hashtag.attempt, st)
       IN
       IF st = 200
       THEN /\ \E ok \in (IF rows = {} THEN {TRUE} ELSE StoreOk("hashtag")) :
                 shop_videos' = IF ok THEN Upsert(shop_videos, rows) ELSE shop_videos
            /\ hashtag' = HashtagLoop([counted EXCEPT !.pageCount = @ + 1,
                                                      !.offset = IF end THEN @ ELSE @ + COUNT,
                                                      !.ended = @ \/ end])
            /\ Settle("hashtag", st, "ok")
       ELSE IF st = 404
       THEN /\ hashtag' = [counted EXCEPT !.attempt = attempt, !.pc = "exited"]
            /\ Settle("hashtag", st, "notfound")
            /\ UNCHANGED shop_videos
       ELSE IF st \in {429, 500} /\ attempt < MAX_PAGE_ATTEMPTS
       THEN /\ hashtag' = [counted EXCEPT !.attempt = attempt]
            /\ Pending("hashtag", st)
            /\ UNCHANGED shop_videos
       ELSE /\ hashtag' = HashtagLoop([counted EXCEPT !.offset = @ + COUNT,
                                                      !.pageCount = @ + 1])
            /\ Settle("hashtag", st, "skipped")
            /\ UNCHANGED shop_videos
  /\ UNCHANGED <<cycles, quiet>>
  /\ UNCHANGED <<fetcher, seq, parVars, handleStore, crawlEnv, drain, storeSide>>

\* -------------------------- handleScraper.ts -----------------------------
SeqIdle ==
  [pc |-> "idle", newUsernames |-> {}, handles |-> {}, handle |-> NoHandle,
   blacklist |-> {}, totalVideosThisScrape |-> 0, shopVideosThisScrape |-> 0,
   hasRecentPosts |-> FALSE, offset |-> 0, pageCount |-> 0,
   consecutiveFailures |-> 0, retryCount |-> 0, scrapeSuccess |-> TRUE,
   seen |-> {}, werr |-> FALSE, ended |-> FALSE, afterEnd |-> 0]

\* a discovery that does not look at the handles stored
Unfiltered(uniqueUsernames, existingUsernames) == uniqueUsernames

\* uniqueUsernames.filter(u => !existingUsernames.has(u))
NewUsernames(uniqueUsernames, existingUsernames) ==
  {u \in uniqueUsernames : u \notin existingUsernames}

\* runHandleScrapeLoop -> discoverHandlesFromVideos: the two reads
SeqDiscoverRead ==
  /\ seq.pc = "idle"
  /\ "scrapeHandle" \in deployed
  /\ cycles["seq"] < cycleCap
  /\ \E okVideos \in StoreOk("seq"), okHandles \in StoreOk("seq") :
       LET uniqueUsernames == {Author(r.aweme_id) : r \in shop_videos}
           existingUsernames == IF okHandles THEN {r.username : r \in tiktok_handles} ELSE {}
           newUsernames == NewUsernames(uniqueUsernames, existingUsernames)
       IN IF ~okVideos \/ newUsernames = {}
          THEN seq' = [seq EXCEPT !.pc = "fetch"]
          ELSE seq' = [seq EXCEPT !.pc = "insert", !.newUsernames = newUsernames]
  /\ UNCHANGED <<wire, served, cycles, quiet>>
  /\ UNCHANGED <<fetcher, hashtag, parVars, handleStore, crawlEnv, drain, shop_videos, storeSide>>

\* discoverHandlesFromVideos: insert(newHandles); username is UNIQUE, so the
\* batch is refused when one of its usernames is stored
SeqDiscoverInsert ==
  /\ seq.pc = "insert"
  /\ \E ok \in StoreOk("seq") :
       tiktok_handles' =
         IF ok /\ \A r \in tiktok_handles : r.username \notin seq.newUsernames
         THEN tiktok_handles \cup {NewHandle(u) : u \in seq.newUsernames}
         ELSE tiktok_handles
  /\ seq' = [seq EXCEPT !.pc = "fetch", !.newUsernames = {}]
  /\ UNCHANGED <<handle_scrape_history, wire, served, cycles, quiet>>
  /\ UNCHANGED <<fetcher, hashtag, parVars, crawlEnv, drain, shop_videos, storeSide>>

\* fetchActiveHandles / fetchPrioritizedHandles: .eq('status', 'active'); an
\* error yields no handle
ActiveHandles(table, ok) == IF ok THEN {r \in table : r.status = "active"} ELSE {}

\* runHandleScrapeLoop: fetchActiveHandles; no handle ends the cycle
SeqFetchHandles ==
  /\ seq.pc = "fetch"
  /\ \E ok \in StoreOk("seq") :
       LET handles == ActiveHandles(tiktok_handles, ok) IN
       IF handles = {}
       THEN /\ seq' = SeqIdle
            /\ cycles' = [cycles EXCEPT !["seq"] = @ + 1]
       ELSE /\ seq' = [seq EXCEPT !.pc = "blacklist", !.handles = handles]
            /\ UNCHANGED cycles
  /\ UNCHANGED <<wire, served, quiet>>
  /\ UNCHANGED <<fetcher, hashtag, parVars, handleStore, crawlEnv, drain, shop_videos, storeSide>>

\* runHandleScrapeLoop: fetchBlacklistedIds
SeqBlacklist ==
  /\ seq.pc = "blacklist"
  /\ \E ok \in StoreOk("seq") :
       seq' = [seq EXCEPT !.pc = "next",
                          !.blacklist = IF ok THEN blacklisted_products ELSE {}]
  /\ UNCHANGED <<wire, served, cycles, quiet>>
  /\ UNCHANGED <<fetcher, hashtag, parVars, handleStore, crawlEnv, drain, shop_videos, storeSide>>

\* for (const handle of handles) scrapeHandle(handle, blacklist): entry. The
\* query's order (last_scraped_at) is not kept: any order of the rows.
ScrapeHandleStart ==
  /\ seq.pc = "next"
  /\ \E h \in seq.handles :
       seq' = [SeqIdle EXCEPT !.pc = "page", !.handles = seq.handles \ {h}, !.handle = h,
                              !.blacklist = seq.blacklist]
  /\ UNCHANGED <<wire, served, cycles, quiet>>
  /\ UNCHANGED <<fetcher, hashtag, parVars, handleStore, crawlEnv, drain, shop_videos, storeSide>>

\* every handle of the cycle has been scraped
SeqCycleEnd ==
  /\ seq.pc = "next"
  /\ seq.handles = {}
  /\ seq' = SeqIdle
  /\ cycles' = [cycles EXCEPT !["seq"] = @ + 1]
  /\ UNCHANGED <<wire, served, quiet>>
  /\ UNCHANGED <<fetcher, hashtag, parVars, handleStore, crawlEnv, drain, shop_videos, storeSide>>

\* an outer loop that does not test the page count
HandleLoopUncapped(s) ==
  IF s.consecutiveFailures < MAX_CONSECUTIVE_FAILURES
  THEN [s EXCEPT !.retryCount = 0]
  ELSE [s EXCEPT !.pc = "finish"]

\* while (pageCount < MAX_PAGES_PER_HANDLE && consecutiveFailures < ...): the
\* outer loop's test, then a fresh retry loop
HandleLoop(s) ==
  IF s.pageCount < MAX_PAGES_PER_HANDLE /\ s.consecutiveFailures < MAX_CONSECUTIVE_FAILURES
  THEN [s EXCEPT !.retryCount = 0]
  ELSE [s EXCEPT !.pc = "finish"]

\* the catch block's retryCount++ and, for a 429, retryCount--
HandleRetryCount(retryCount, st) == IF st = 429 THEN retryCount ELSE retryCount + 1

\* scrapeHandle: one wire call of the retry loop and what follows it up to
\* the next wire call or the end of the paging
HandleCall ==
  /\ seq.pc = "page"
  /\ \E st \in Answers("seq") :
       LET u == seq.handle.username
           pg == PageAt(source[u], seq.offset)
           rows == ToInsert(pg.list, seq.blacklist)
           hasMore == pg.has_more = 1
           counted == [seq EXCEPT !.afterEnd = IF seq.ended THEN @ + 1 ELSE @]
           failed == [counted EXCEPT !.consecutiveFailures = @ + 1,
                                     !.retryCount = HandleRetryCount(@, st),
                                     !.seen = @ \cup {st}]
       IN
       IF st = 200
       THEN /\ Settle("seq", st, "ok")
            /\ UNCHANGED tiktok_handles
            /\ IF DOMAIN pg.list = {}
               THEN /\ seq' = HandleLoop([counted EXCEPT !.pageCount = @ + 1,
                                                         !.consecutiveFailures = 0,
                                                         !.ended = TRUE])
                    /\ UNCHANGED shop_videos
               ELSE /\ seq' = HandleLoop([counted EXCEPT
                             !.pageCount = @ + 1,
                             !.consecutiveFailures = 0,
                             !.hasRecentPosts = @ \/ pg.recent,
                             !.totalVideosThisScrape = @ + Cardinality(DOMAIN pg.list),
                             !.shopVideosThisScrape = @ + ShopCount(pg.list),
                             !.offset = IF hasMore THEN @ + COUNT ELSE @,
                             !.ended = @ \/ ~hasMore])
                    /\ \E ok \in (IF rows = {} THEN {TRUE} ELSE StoreOk("seq")) :
                         shop_videos' = IF ok THEN Upsert(shop_videos, rows) ELSE shop_videos
       ELSE IF st \in {404, 403}
       THEN /\ \E ok \in StoreOk("seq") :
                 /\ tiktok_handles' =
                      IF ok THEN SetStatus(tiktok_handles, u, IF st = 404 THEN "removed" ELSE "inactive")
                      ELSE tiktok_handles
                 /\ seq' = [failed EXCEPT !.scrapeSuccess = FALSE, !.pc = "finish",
                                          !.werr = @ \/ ~ok]
            /\ Settle("seq", st, IF st = 404 THEN "notfound" ELSE "forbidden")
            /\ UNCHANGED shop_videos
       ELSE IF failed.retryCount < MAX_RETRIES_PER_PAGE
       THEN /\ seq' = failed
            /\ Pending("seq", st)
            /\ UNCHANGED <<tiktok_handles, shop_videos>>
       ELSE /\ seq' = [failed EXCEPT !.scrapeSuccess = FALSE, !.pc = "finish"]
            /\ Settle("seq", st, "givenUp")
            /\ UNCHANGED <<tiktok_handles, shop_videos>>
  /\ UNCHANGED <<handle_scrape_history, cycles, quiet>>
  /\ UNCHANGED <<fetcher, hashtag, parVars, crawlEnv, drain, storeSide>>

\* scrapeHandle after the paging: the consecutive-failure limit, then
\* logScrapeResult; a failed scrape returns here
HandleFinish ==
  /\ seq.pc = "finish"
  /\ \E ok \in (IF seq.consecutiveFailures >= MAX_CONSECUTIVE_FAILURES
                   THEN StoreOk("seq") ELSE {TRUE}),
        okLog \in StoreOk("seq") :
       LET u == seq.handle.username
           limit == seq.consecutiveFailures >= MAX_CONSECUTIVE_FAILURES
           scrapeSuccess == seq.scrapeSuccess /\ ~limit
       IN /\ tiktok_handles' = IF limit /\ ok THEN SetStatus(tiktok_handles, u, "inactive")
                               ELSE tiktok_handles
          /\ handle_scrape_history' =
               IF okLog THEN Logged(handle_scrape_history, u, scrapeSuccess,
                                    seq.totalVideosThisScrape, seq.shopVideosThisScrape,
                                    seq.pageCount)
               ELSE handle_scrape_history
          /\ seq' = [seq EXCEPT !.scrapeSuccess = scrapeSuccess,
                                !.pc = IF scrapeSuccess THEN "stats" ELSE "next",
                                !.werr = @ \/ ~ok]
          /\ quiet' = IF scrapeSuccess THEN quiet
                      ELSE [quiet EXCEPT ![u] = QuietAfter(@, FALSE, FALSE)]
  /\ UNCHANGED <<wire, served, cycles>>
  /\ UNCHANGED <<fetcher, hashtag, parVars, crawlEnv, drain, shop_videos, storeSide>>

\* scrapeHandle: updateHandleStats after a successful scrape, then return
HandleStats ==
  /\ seq.pc = "stats"
  /\ \E ok \in StoreOk("seq") :
       /\ tiktok_handles' =
            IF ok THEN UpdateHandleStats(tiktok_handles, seq.handle, seq.totalVideosThisScrape,
                                         seq.shopVideosThisScrape, seq.hasRecentPosts)
            ELSE tiktok_handles
       /\ quiet' = [quiet EXCEPT ![seq.handle.username] = QuietAfter(@, ok, seq.hasRecentPosts)]
       /\ seq' = [seq EXCEPT !.pc = "next", !.werr = @ \/ ~ok]
  /\ UNCHANGED <<handle_scrape_history, wire, served, cycles>>
  /\ UNCHANGED <<fetcher, hashtag, parVars, crawlEnv, drain, shop_videos, storeSide>>

\* -------------------------- parallel handle scraper ----------------------
ParIdle == [pc |-> "idle", handles |-> {}, blacklist |-> {}]

WorkerOff ==
  [pc |-> "off", handle |-> NoHandle, totalVideosThisScrape |-> 0,
   shopVideosThisScrape |-> 0, hasRecentPosts |-> FALSE, pagesScraped |-> 0,
   scrapeSuccess |-> TRUE, seen |-> {}, werr |-> FALSE]

NoRequest == [handle |-> NULL, offset |-> 0, pageNum |-> 0, retries |-> 0, gap |-> 0]

\* an offset computed from the page number as if pages were numbered from 0
RequestFromZero(u, pageNum) ==
  [handle |-> u, offset |-> pageNum * COUNT, pageNum |-> pageNum, retries |-> 0,
   gap |-> 0]

Request(u, pageNum) ==
  [handle |-> u, offset |-> (pageNum - 1) * COUNT, pageNum |-> pageNum, retries |-> 0,
   gap |-> 0]

\* the orders in which a query may return the rows S
Orders(S) ==
  {o \in [1..Cardinality(S) -> S] : \A i, j \in 1..Cardinality(S) : i # j => o[i] # o[j]}

\* runParallelScrapeLoop: fetchPrioritizedHandles; no handle ends the cycle
ParFetchHandles ==
  /\ par.pc = "idle"
  /\ "scrapeHandleParallel" \in deployed
  /\ cycles["par"] < cycleCap
  /\ \E ok \in StoreOk("par") :
       LET handles == ActiveHandles(tiktok_handles, ok) IN
       IF handles = {}
       THEN /\ UNCHANGED par
            /\ cycles' = [cycles EXCEPT !["par"] = @ + 1]
       ELSE /\ par' = [par EXCEPT !.pc = "blacklist", !.handles = handles]
            /\ UNCHANGED cycles
  /\ UNCHANGED <<pworker, queue, current, wire, served, quiet>>
  /\ UNCHANGED <<fetcher, hashtag, seq, handleStore, crawlEnv, drain, shop_videos, storeSide>>

\* runParallelScrapeLoop: fetchBlacklistedIds
ParBlacklist ==
  /\ par.pc = "blacklist"
  /\ \E ok \in StoreOk("par") :
       par' = [par EXCEPT !.pc = "chunk",
                          !.blacklist = IF ok THEN blacklisted_products ELSE {}]
  /\ UNCHANGED <<pworker, queue, current, wire, served, cycles, quiet>>
  /\ UNCHANGED <<fetcher, hashtag, seq, handleStore, crawlEnv, drain, shop_videos, storeSide>>

\* addRequest called for each request of pushed, in order: the push, then
\* processQueue
RECURSIVE AddRequests(_, _)
AddRequests(d, pushed) ==
  IF pushed = <<>> THEN d
  ELSE ProcessQueue(AddRequests(d, SubSeq(pushed, 1, Len(pushed) - 1)), pushed)

\* chunk.map(handle => scrapeHandleParallel(handle, blacklist)): every handle
\* of the chunk (at most CONCURRENT_HANDLES = 10, here all of them) starts and
\* queues the request of its first page, in the order of the rows
ParChunk ==
  /\ par.pc = "chunk"
  /\ \E o \in Orders({h.username : h \in par.handles}) :
       /\ queue' = queue \o [i \in DOMAIN o |-> Request(o[i], 1)]
       /\ drain' = [drain EXCEPT !["par"] = AddRequests(@, [i \in DOMAIN o |-> Request(o[i], 1)])]
  /\ pworker' = [u \in Usernames |->
                   IF \E h \in par.handles : h.username = u
                   THEN [WorkerOff EXCEPT !.pc = "await",
                                          !.handle = CHOOSE h \in par.handles : h.username = u]
                   ELSE pworker[u]]
  /\ par' = [par EXCEPT !.pc = "settle"]
  /\ UNCHANGED <<current, wire, served, cycles, quiet>>
  /\ UNCHANGED <<fetcher, hashtag, seq, handleStore, crawlEnv, shop_videos, storeSide>>

\* RateLimitedQueue.processQueue: the next request is taken when the one
\* before it has been resolved or rejected
QueueDispatch ==
  /\ drain["par"].processing
  /\ current.handle = NULL
  /\ queue # <<>>
  /\ \E since \in SinceLast("par") :
       current' = [Shift(queue).request EXCEPT !.gap = Paced(since)]
  /\ queue' = Shift(queue).rest
  /\ UNCHANGED <<par, pworker, wire, served, cycles, quiet>>
  /\ UNCHANGED <<fetcher, hashtag, seq, handleStore, crawlEnv, drain, shop_videos, storeSide>>

\* makeRequest's budget: retries++ on every error but a 429
MakeRequestRetries(retries, st) == IF st = 429 THEN retries ELSE retries + 1

\* RateLimitedQueue.makeRequest: one wire call; when the request is resolved
\* or rejected, scrapeHandleParallel goes on up to its next addRequest or to
\* the end of its paging
MakeRequestCall ==
  /\ current.handle # NULL
  /\ \E st \in Answers("par") :
       LET u == current.handle
           w == pworker[u]
           pg == PageAt(source[u], current.offset)
           rows == ToInsert(pg.list, par.blacklist)
           hasMore == pg.has_more = 1
           retries == MakeRequestRetries(current.retries, st)
           failed == [w EXCEPT !.seen = @ \cup {st}]
           \* the loop's test after resolve / reject, before the caller goes on
           tested == LoopTest(drain["par"], queue)
       IN
       IF st = 200
       THEN /\ Settle("par", st, "ok")
            /\ current' = NoRequest
            /\ UNCHANGED tiktok_handles
            /\ IF DOMAIN pg.list = {}
               THEN /\ pworker' = [pworker EXCEPT ![u] =
                                     [w EXCEPT !.pagesScraped = @ + 1, !.pc = "finish"]]
                    /\ drain' = [drain EXCEPT !["par"] = tested]
                    /\ UNCHANGED <<queue, shop_videos>>
               ELSE /\ pworker' = [pworker EXCEPT ![u] =
                          [w EXCEPT !.pagesScraped = @ + 1,
                                    !.hasRecentPosts = @ \/ pg.recent,
                                    !.totalVideosThisScrape = @ + Cardinality(DOMAIN pg.list),
                                    !.shopVideosThisScrape = @ + ShopCount(pg.list),
                                    !.pc = IF hasMore /\ current.pageNum < PAR_MAX_PAGES_PER_HANDLE
                                           THEN "await" ELSE "finish"]]
                    /\ queue' = IF hasMore /\ current.pageNum < PAR_MAX_PAGES_PER_HANDLE
                                THEN Append(queue, Request(u, current.pageNum + 1))
                                ELSE queue
                    /\ drain' = [drain EXCEPT !["par"] =
                                   IF hasMore /\ current.pageNum < PAR_MAX_PAGES_PER_HANDLE
                                   THEN ProcessQueue(tested,
                                          Append(queue, Request(u, current.pageNum + 1)))
                                   ELSE tested]
                    /\ \E ok \in (IF rows = {} THEN {TRUE} ELSE StoreOk("par")) :
                         shop_videos' = IF ok THEN Upsert(shop_videos, rows) ELSE shop_videos
       ELSE IF st = 429 \/ retries < PAR_MAX_RETRIES_PER_PAGE
       THEN /\ Pending("par", st)
            /\ current' = [current EXCEPT !.retries = retries,
                                           !.gap = IF st = 429 THEN RATE_LIMIT_BACKOFF
                                                   ELSE RETRY_DELAY]
            /\ pworker' = [pworker EXCEPT ![u] = failed]
            /\ UNCHANGED <<queue, drain, tiktok_handles, shop_videos>>
       ELSE /\ Settle("par", st, "thrown")
            /\ current' = NoRequest
            /\ \E ok \in (IF st \in {404, 403} THEN StoreOk("par") ELSE {TRUE}) :
                 /\ tiktok_handles' =
                      IF st \in {404, 403} /\ ok
                      THEN SetStatus(tiktok_handles, u, IF st = 404 THEN "removed" ELSE "inactive")
                      ELSE tiktok_handles
                 /\ pworker' = [pworker EXCEPT ![u] =
                                  [failed EXCEPT !.scrapeSuccess = @ /\ st \notin {404, 403},
                                                 !.pc = "finish", !.werr = @ \/ ~ok]]
            /\ drain' = [drain EXCEPT !["par"] = tested]
            /\ UNCHANGED <<queue, shop_videos>>
  /\ UNCHANGED <<par, handle_scrape_history, cycles, quiet>>
  /\ UNCHANGED <<fetcher, hashtag, seq, crawlEnv, storeSide>>

\* scrapeHandleParallel after the paging: logScrapeResult, then
\* updateHandleStats when scrapeSuccess, and return
ParFinish(u) ==
  /\ pworker[u].pc = "finish"
  /\ \E okLog \in StoreOk("par"), ok \in (IF pworker[u].scrapeSuccess THEN StoreOk("par") ELSE {TRUE}) :
       LET w == pworker[u] IN
       /\ handle_scrape_history' =
            IF okLog THEN Logged(handle_scrape_history, u, w.scrapeSuccess,
                                 w.totalVideosThisScrape, w.shopVideosThisScrape, w.pagesScraped)
            ELSE handle_scrape_history
       /\ tiktok_handles' =
            IF w.scrapeSuccess /\ ok
            THEN UpdateHandleStatsParallel(tiktok_handles, w.handle, w.totalVideosThisScrape,
                                           w.shopVideosThisScrape, w.hasRecentPosts)
            ELSE tiktok_handles
       /\ quiet' = [quiet EXCEPT ![u] = QuietAfter(@, w.scrapeSuccess /\ ok, w.hasRecentPosts)]
       /\ pworker' = [pworker EXCEPT ![u] = [w EXCEPT !.pc = "done", !.werr = @ \/ ~ok]]
  /\ UNCHANGED <<par, queue, current, wire, served, cycles>>
  /\ UNCHANGED <<fetcher, hashtag, seq, crawlEnv, drain, shop_videos, storeSide>>

\* await Promise.allSettled(chunkPromises): the cycle is over
ParSettled ==
  /\ par.pc = "settle"
  /\ \A h \in par.handles : pworker[h.username].pc = "done"
  /\ par' = ParIdle
  /\ pworker' = [u \in Usernames |-> WorkerOff]
  /\ cycles' = [cycles EXCEPT !["par"] = @ + 1]
  /\ UNCHANGED <<queue, current, wire, served, quiet>>
  /\ UNCHANGED <<fetcher, hashtag, seq, handleStore, crawlEnv, drain, shop_videos, storeSide>>

\* -------------------------- specifications of the crawl ------------------
CrawlInit ==
  /\ handle_scrape_history = {}
  /\ fetcher = FetcherIdle
  /\ hashtag = HashtagIdle
  /\ seq = SeqIdle
  /\ par = ParIdle
  /\ pworker = [u \in Usernames |-> WorkerOff]
  /\ queue = <<>>
  /\ current = NoRequest
  /\ drain = [q \in Queues |-> DrainIdle]
  /\ wire = [p \in Processes |-> NoWire]
  /\ served = [p \in Processes |-> 0]
  /\ cycles = [p \in Processes |-> 0]
  /\ quiet = [u \in Usernames |-> 0]

\* no crawl program is deployed
CrawlOff ==
  /\ CrawlInit
  /\ tiktok_handles = {}
  /\ deployed = {}
  /\ source = DefaultSource
  /\ faulty = [p \in Processes |-> 0]
  /\ cycleCap = 0

HandleNext ==
  \/ SeqDiscoverRead
  \/ SeqDiscoverInsert
  \/ SeqFetchHandles
  \/ SeqBlacklist
  \/ ScrapeHandleStart
  \/ SeqCycleEnd
  \/ HandleCall
  \/ HandleFinish
  \/ HandleStats
  \/ ParFetchHandles
  \/ ParBlacklist
  \/ ParChunk
  \/ QueueDispatch
  \/ MakeRequestCall
  \/ \E u \in Usernames : ParFinish(u)
  \/ ParSettled

CrawlNext ==
  \/ FetchStart
  \/ WithRetryCall
  \/ QueueFetchCall
  \/ DirectCall
  \/ FetchReturn
  \/ HashtagRun
  \/ HashtagBlacklist
  \/ HashtagCall
  \/ HandleNext

\* ------------------------------------------------------------------------
\* index.ts runParallelEnrichment: the chunk of enrichProductDirect promises,
\* one per product id, each at its awaited store or upstream call
\* ------------------------------------------------------------------------
NoTask == [pc |-> "none", attempt |-> 0, meta |-> NoMeta, hit |-> FALSE]

PoolIdle == [pc |-> "query", task |-> [p \in Products |-> NoTask]]

\* the HTTP status the upstream returns to the attempt-th call for a product:
\* it recovers by attempt RecoverBy or stays down
PoolAnswers(attempt) == IF attempt <= RecoverBy THEN {200, 429, 500} ELSE {500}

\* the product-detail wire calls that have been sent and not yet answered
InFlight == {p \in Products : pool.task[p].pc = "wire"}

\* while (hasMore): the "needs enrichment" query; chunk.map(productId =>
\* enrichProductDirect(productId)) starts every promise of the chunk (the
\* ids are fewer than CONCURRENT_PRODUCTS), each up to its cache read
PoolQuery ==
  /\ pool.pc = "query"
  /\ "runParallelEnrichment" \in deployed
  /\ \E ok \in BOOLEAN :
       LET ids == MissingParallel(shop_videos) IN
       IF ~ok THEN UNCHANGED pool
       ELSE IF ids = {} THEN pool' = [pool EXCEPT !.pc = "ended"]
       ELSE pool' = [pc |-> "chunk",
                     task |-> [p \in Products |->
                                 IF p \in ids THEN [NoTask EXCEPT !.pc = "cache"] ELSE NoTask]]
  /\ UNCHANGED <<storeVars, enrichVars, scraperVars, envVars, entry, crawlVars>>

\* enrichProductDirect: the cache read returns (its error is not read); a hit
\* issues the update from the cache row, a miss calls
\* fetchProductDetailsDirectly, which sends its first axios.get
PoolCacheRead(p) ==
  /\ pool.task[p].pc = "cache"
  /\ \E ok \in BOOLEAN :
       LET rows == IF ok THEN {c \in shop_products : c.product_id = p} ELSE {} IN
       IF rows # {}
       THEN \E c \in rows :
              pool' = [pool EXCEPT !.task[p] = [@ EXCEPT !.pc = "update", !.hit = TRUE,
                                                         !.meta = MetaOf(c)]]
       ELSE pool' = [pool EXCEPT !.task[p] = [@ EXCEPT !.pc = "wire", !.attempt = 1]]
  /\ UNCHANGED <<storeVars, enrichVars, scraperVars, envVars, entry, crawlVars>>

\* fetchProductDetailsDirectly: the answer to the axios.get of this attempt;
\* then enrichProductDirect up to its next store call
PoolResponse(p) ==
  /\ pool.task[p].pc = "wire"
  /\ \E st \in PoolAnswers(pool.task[p].attempt) :
       LET t == pool.task[p]
           d == catalog[p]
       IN
       IF st = 200
       THEN IF NoProducts(d)
            THEN pool' = [pool EXCEPT !.task[p] = [t EXCEPT !.pc = "delete"]]
            ELSE pool' = [pool EXCEPT !.task[p] =
                            [t EXCEPT !.pc = "insert", !.meta = ExtractMeta("direct", d)]]
       ELSE IF t.attempt < MAX_RETRIES
       THEN pool' = [pool EXCEPT !.task[p] = [t EXCEPT !.pc = "sleep"]]
       ELSE pool' = [pool EXCEPT !.task[p] = [t EXCEPT !.pc = "delete"]]
  /\ UNCHANGED <<storeVars, enrichVars, scraperVars, envVars, entry, crawlVars>>

\* fetchProductDetailsDirectly: the sleep is over, the next attempt is sent
PoolRetry(p) ==
  /\ pool.task[p].pc = "sleep"
  /\ pool' = [pool EXCEPT !.task[p] = [@ EXCEPT !.pc = "wire", !.attempt = @ + 1]]
  /\ UNCHANGED <<storeVars, enrichVars, scraperVars, envVars, entry, crawlVars>>

\* enrichProductDirect: delete().eq('product_id', productId); return false
PoolDelete(p) ==
  /\ pool.task[p].pc = "delete"
  /\ \E ok \in BOOLEAN :
       shop_videos' = IF ok THEN DeleteVideos(shop_videos, p) ELSE shop_videos
  /\ pool' = [pool EXCEPT !.task[p] = [@ EXCEPT !.pc = "done"]]
  /\ UNCHANGED <<shop_products, blacklisted_products, enrichVars, scraperVars, envVars, entry, crawlVars>>

\* enrichProductDirect: insert into shop_products; the result is not read
PoolInsert(p) ==
  /\ pool.task[p].pc = "insert"
  /\ \E ok \in BOOLEAN :
       shop_products' = IF ok /\ CanInsertProduct(shop_products, p)
                        THEN shop_products \cup {CacheRow(p, pool.task[p].meta)}
                        ELSE shop_products
  /\ pool' = [pool EXCEPT !.task[p] = [@ EXCEPT !.pc = "update"]]
  /\ UNCHANGED <<shop_videos, blacklisted_products, enrichVars, scraperVars, envVars, entry, crawlVars>>

\* enrichProductDirect: update the referencing videos, from the cache row on a
\* hit, with the fallback values after a fetch; return
PoolUpdate(p) ==
  /\ pool.task[p].pc = "update"
  /\ \E ok \in BOOLEAN :
       LET t == pool.task[p]
           m == IF t.hit THEN t.meta ELSE DirectFallback(t.meta)
       IN shop_videos' = IF ok THEN UpdateVideos(shop_videos, p, m) ELSE shop_videos
  /\ pool' = [pool EXCEPT !.task[p] = [@ EXCEPT !.pc = "done"]]
  /\ UNCHANGED <<shop_products, blacklisted_products, enrichVars, scraperVars, envVars, entry, crawlVars>>

\* await Promise.allSettled(promises): the chunk is over, the loop goes on
PoolSettled ==
  /\ pool.pc = "chunk"
  /\ \A p \in Products : pool.task[p].pc \in {"none", "done"}
  /\ pool' = PoolIdle
  /\ UNCHANGED <<storeVars, enrichVars, scraperVars, envVars, entry, crawlVars>>

PoolNext ==
  \/ PoolQuery
  \/ \E p \in Products : PoolCacheRead(p)
  \/ \E p \in Products : PoolResponse(p)
  \/ \E p \in Products : PoolRetry(p)
  \/ \E p \in Products : PoolDelete(p)
  \/ \E p \in Products : PoolInsert(p)
  \/ \E p \in Products : PoolUpdate(p)
  \/ PoolSettled

\* ------------------------------------------------------------------------
\* extractor.ts extractVideos: video_ratio and video_duration of one entry
\* ------------------------------------------------------------------------
\* v.video?.width, v.video?.height, the raw duration: a number or Absent
Dims == {Absent} \cup 0..MaxDim \cup {1080, 1920}
Durations == {Absent} \cup 0..MaxDuration \cup {15000}

NoEntry == [pc |-> "none", width |-> Absent, height |-> Absent, duration |-> Absent,
            video_ratio |-> "", video_duration |-> Absent]

\* x ?? 0
OrZero(x) == IF x = Absent THEN 0 ELSE x

\* a ratio that is not reduced
GcdOne(a, b) == 1

\* const gcd = (a, b) => (b === 0 ? a : gcd(b, a % b))
RECURSIVE gcd(_, _)
gcd(a, b) == IF b = 0 THEN a ELSE gcd(b, a % b)

\* w && h ? `${w / gcd(w, h)}:${h / gcd(w, h)}` : ''
VideoRatio(width, height) ==
  LET w == OrZero(width)
      h == OrZero(height)
  IN IF w # 0 /\ h # 0
     THEN ToString(w \div gcd(w, h)) \o ":" \o ToString(h \div gcd(w, h))
     ELSE ""

\* a division by 1000 that drops the fraction
Truncated(rawDur) == rawDur \div 1000

\* Math.round(rawDur / 1000) of a non-negative integer
MathRoundThousandth(rawDur) == (rawDur + 500) \div 1000

\* rawDur == null ? null : rawDur > 600 ? Math.round(rawDur / 1000) : rawDur
VideoDuration(rawDur) ==
  IF rawDur = Absent THEN Absent
  ELSE IF rawDur > 600 THEN MathRoundThousandth(rawDur)
  ELSE rawDur

\* extractVideos on one entry of aweme_list
ExtractVideos ==
  /\ entry.pc = "raw"
  /\ entry' = [entry EXCEPT !.pc = "parsed",
                            !.video_ratio = VideoRatio(entry.width, entry.height),
                            !.video_duration = VideoDuration(entry.duration)]
  /\ UNCHANGED <<storeVars, enrichVars, scraperVars, envVars, pool, crawlVars>>

\* ------------------------------------------------------------------------
\* Specifications
\* ------------------------------------------------------------------------
vars == <<storeVars, enrichVars, scraperVars, envVars, pool, entry, crawlVars>>

StoreNext ==
  \/ \E w \in Workers : RunQuery(w)
  \/ \E w \in Workers : EnrichStart(w)
  \/ \E w \in Workers : EnrichReturn(w)
  \/ \E w \in Workers : BatchDone(w)
  \/ \E w \in Workers : CacheRead(w)
  \/ \E w \in Workers : FetchDetail(w)
  \/ \E w \in Workers : DeleteReferencing(w)
  \/ \E w \in Workers : BlacklistInsert(w)
  \/ \E w \in Workers : CacheInsert(w)
  \/ \E w \in Workers : UpdateReferencing(w)
  \/ ScraperStart
  \/ ScraperPage
  \/ ScraperUpsert
  \/ ScraperEnd

EmptyStore ==
  /\ shop_videos = {}
  /\ shop_products = {}
  /\ blacklisted_products = {}
  /\ EnrichInit
  /\ pool = PoolIdle
  /\ ScraperInit
  /\ CrawlOff

\* SpecStore: every enrichment program against a scraper; the upstream serves
\* one version of each video, every video carries a product (a1 always P1),
\* and one of two product catalogs answers the product-detail calls
StoreCatalogs == {[p \in Products |-> IF p = "P1" THEN RespFull ELSE RespSparse],
                  [p \in Products |-> IF p = "P1" THEN RespEmpty ELSE RespFull]}

StoreInit ==
  /\ entry = NoEntry
  /\ feed = {e \in AllEntries : e.ver = "v1" /\ e.product_id # NULL /\
                                (e.aweme_id = "a1" => e.product_id = "P1")}
  /\ catalog \in StoreCatalogs
  /\ variants = Variants
  /\ EmptyStore

SpecStore == StoreInit /\ [][StoreNext]_vars

\* SpecIngest: the deployed processes (index.ts scraper and enricher.ts); the
\* upstream serves every entry over Awemes, Products and Vers
IngestInit ==
  /\ entry = NoEntry
  /\ feed = AllEntries
  /\ catalog = [p \in Products |-> IF p = "P1" THEN RespFull ELSE RespEmpty]
  /\ variants = {"single"}
  /\ EmptyStore

SpecIngest == IngestInit /\ [][StoreNext]_vars

\* the store as the hashtag scraper has left it: one shop video for each
\* aweme of seeded; no enrichment program runs
SeededStoreOf(seeded) ==
  /\ shop_videos = {VideoRow(a, "P1", "v1", NoMeta) : a \in seeded}
  /\ shop_products = {}
  /\ blacklisted_products = {}
  /\ EnrichInit
  /\ pool = PoolIdle
  /\ ScraperInit
  /\ feed = {}
  /\ catalog = [p \in Products |-> RespEmpty]
  /\ variants = {}

\* one shop video, of author Author(a)
SeededStore(a) == SeededStoreOf({a})

\* SpecCrawl: one crawl program at a time (a product-detail fetch routine, the
\* hashtag scraper, the handle scraper or the parallel handle scraper) against
\* an upstream that may fail its leading requests
\* (the handle scraper discovers u1 from shop_videos; the parallel handle
\* scraper has no discovery and finds u1 stored)
HandleConfigs(sources) ==
  {[deployed |-> {"scrapeHandle"}, handles |-> {},
    source |-> [DefaultSource EXCEPT !["u1"] = s]] : s \in sources}
  \cup {[deployed |-> {"scrapeHandleParallel"}, handles |-> {NewHandle("u1")},
          source |-> [DefaultSource EXCEPT !["u1"] = s]] : s \in sources}

CrawlConfigs ==
  {[deployed |-> {rt}, handles |-> {}, source |-> DefaultSource] : rt \in FetchRoutines}
  \cup {[deployed |-> {"scrapeHashtag"}, handles |-> {},
          source |-> [DefaultSource EXCEPT !["tag"] = s]] : s \in SourcesOf("a1")}
  \cup HandleConfigs(SourcesOf("a1"))

CrawlSpecInit ==
  /\ entry = NoEntry
  /\ SeededStore("a1")
  /\ CrawlInit
  /\ \E c \in CrawlConfigs :
       deployed = c.deployed /\ tiktok_handles = c.handles /\ source = c.source
  /\ faulty = [p \in Processes |-> FaultyRequests]
  /\ cycleCap = CrawlCycles

SpecCrawl == CrawlSpecInit /\ [][CrawlNext]_vars

\* SpecQueue: the two rate-limited queues under faults, each in its program:
\* ProductEnrichmentQueue fetching a product, and RateLimitedQueue serving
\* the page requests of two handles scraped at the same time
QueueConfigs ==
  {[deployed |-> {"fetchProductDetails"}, handles |-> {}, source |-> DefaultSource],
   [deployed |-> {"scrapeHandleParallel"},
    handles |-> {NewHandle("u1"), NewHandle("u2")},
    source |-> [DefaultSource EXCEPT !["u1"] = SourceOf("a1", 2, "P1", FALSE, 0)]]}

QueueInit ==
  /\ entry = NoEntry
  /\ SeededStore("a1")
  /\ CrawlInit
  /\ \E c \in QueueConfigs :
       deployed = c.deployed /\ tiktok_handles = c.handles /\ source = c.source
  \* the scraper meets faults on its first page request only
  /\ faulty = [p \in Processes |-> IF p = "par" THEN 1 ELSE FaultyRequests]
  /\ cycleCap = OverlapCycles

QueueNext ==
  \/ FetchStart
  \/ QueueFetchCall
  \/ FetchReturn
  \/ ParFetchHandles
  \/ ParBlacklist
  \/ ParChunk
  \/ QueueDispatch
  \/ MakeRequestCall
  \/ \E u \in Usernames : ParFinish(u)
  \/ ParSettled

SpecQueue == QueueInit /\ [][QueueNext]_vars

\* SpecPaging: the hashtag scraper or the handle scraper pages through one
\* source, under faults; the process keeps running while it has a step to
\* take (the event loop resumes every continuation that is ready)
PagingConfigs ==
  {[deployed |-> {"scrapeHashtag"}, source |-> [DefaultSource EXCEPT !["tag"] = s]]
     : s \in SourcesOf("a1")}
  \cup {[deployed |-> {"scrapeHandle"}, source |-> [DefaultSource EXCEPT !["u1"] = s]]
          : s \in SourcesOf("a1")}

PagingInit ==
  /\ entry = NoEntry
  /\ SeededStore("a1")
  /\ CrawlInit
  /\ tiktok_handles = {}
  /\ \E c \in PagingConfigs : deployed = c.deployed /\ source = c.source
  /\ faulty = [p \in Processes |-> FaultyRequests]
  /\ cycleCap = OverlapCycles

PagingNext ==
  \/ HashtagRun
  \/ HashtagBlacklist
  \/ HashtagCall
  \/ SeqDiscoverRead
  \/ SeqDiscoverInsert
  \/ SeqFetchHandles
  \/ SeqBlacklist
  \/ ScrapeHandleStart
  \/ SeqCycleEnd
  \/ HandleCall
  \/ HandleFinish
  \/ HandleStats

SpecPaging == PagingInit /\ [][PagingNext]_vars /\ WF_vars(PagingNext)

\* SpecQueueFair: SpecQueue with a scheduler that keeps running whatever is
\* ready: the event loop resumes the drain loop, the wire calls and the
\* callers as long as one of them has a step to take
QueueFairInit ==
  /\ entry = NoEntry
  /\ SeededStore("a1")
  /\ CrawlInit
  /\ \E c \in QueueConfigs :
       deployed = c.deployed /\ tiktok_handles = c.handles /\ source = c.source
  /\ faulty = [p \in Processes |-> IF p = "par" THEN 1 ELSE FaultyRequests]
  \* one cycle of the run loop, one product
  /\ cycleCap = 1

SpecQueueFair == QueueFairInit /\ [][QueueNext]_vars /\ WF_vars(QueueNext)

\* SpecHandles: the handle scraper and the parallel handle scraper run against
\* the same store, their cycles overlapping; the faults meet the parallel one
HandlesInit ==
  /\ entry = NoEntry
  /\ SeededStore("a1")
  /\ CrawlInit
  /\ tiktok_handles = {}
  /\ deployed = {"scrapeHandle", "scrapeHandleParallel"}
  /\ source = [DefaultSource EXCEPT !["u1"] = SourceOf("a1", 1, "P1", FALSE, 0)]
  /\ faulty = [p \in Processes |-> IF p = "par" THEN FaultyRequests ELSE 0]
  /\ cycleCap = OverlapCycles

SpecHandles == HandlesInit /\ [][HandleNext]_vars

\* SpecLifecycle: one handle scraper, cycle after cycle, with no upstream or
\* store fault, on a handle whose videos are all older than 24h
QuietSources == {s \in SourcesOf("a1") : \A i \in DOMAIN s : ~s[i].recent}

LifecycleInit ==
  /\ entry = NoEntry
  /\ SeededStore("a1")
  /\ CrawlInit
  /\ \E c \in HandleConfigs(QuietSources) :
       deployed = c.deployed /\ tiktok_handles = c.handles /\ source = c.source
  /\ faulty = [p \in Processes |-> 0]
  /\ cycleCap = MaxCycles

SpecLifecycle == LifecycleInit /\ [][HandleNext]_vars

\* SpecNoShop: one handle scraper, cycle after cycle and without faults, long
\* enough for a handle that posts without commerce tags to reach the no-shop
\* threshold
NoShopInit ==
  /\ entry = NoEntry
  /\ SeededStore("a1")
  /\ CrawlInit
  /\ \E c \in HandleConfigs(SourcesOf("a1")) :
       deployed = c.deployed /\ tiktok_handles = c.handles /\ source = c.source
  /\ faulty = [p \in Processes |-> 0]
  /\ cycleCap = NoShopCycles

SpecNoShop == NoShopInit /\ [][HandleNext]_vars

\* SpecRatio: one handle scraper, without faults, on a handle u1 that is
\* stored with cumulative counts around the ratio rule's thresholds (total at
\* MIN_VIDEOS_FOR_RATIO or one below, shop videos at a tenth of it or one
\* below); shop_videos holds a video of u1 and one of u2, whom the handle
\* scraper discovers
RatioHandles ==
  {[NewHandle("u1") EXCEPT !.total_videos_found = t, !.shop_videos_found = s,
                           !.shop_ratio = Quotient(s, t)] :
     t \in {MIN_VIDEOS_FOR_RATIO - 1, MIN_VIDEOS_FOR_RATIO},
     s \in {(MIN_VIDEOS_FOR_RATIO * MIN_SHOP_RATIO_PERCENT) \div 100 - 1,
            (MIN_VIDEOS_FOR_RATIO * MIN_SHOP_RATIO_PERCENT) \div 100}}

RatioInit ==
  /\ entry = NoEntry
  /\ SeededStoreOf({"a1", "a2"})
  /\ CrawlInit
  /\ \E d \in {"scrapeHandle", "scrapeHandleParallel"}, s \in SourcesOf("a1") :
       /\ deployed = {d}
       /\ source = [DefaultSource EXCEPT !["u1"] = s]
  /\ tiktok_handles \in {{h} : h \in RatioHandles}
  /\ faulty = [p \in Processes |-> 0]
  /\ cycleCap = CrawlCycles

SpecRatio == RatioInit /\ [][HandleNext]_vars

\* SpecPool: runParallelEnrichment (index.ts) and runEnricher (enricher.ts)
\* run against the same store, which holds one unenriched video per product
EnrichNext ==
  \/ \E w \in Workers : RunQuery(w)
  \/ \E w \in Workers : EnrichStart(w)
  \/ \E w \in Workers : EnrichReturn(w)
  \/ \E w \in Workers : BatchDone(w)
  \/ \E w \in Workers : CacheRead(w)
  \/ \E w \in Workers : FetchDetail(w)
  \/ \E w \in Workers : DeleteReferencing(w)
  \/ \E w \in Workers : BlacklistInsert(w)
  \/ \E w \in Workers : CacheInsert(w)
  \/ \E w \in Workers : UpdateReferencing(w)

PoolInit ==
  /\ entry = NoEntry
  /\ shop_videos = {VideoRow("a1", "P1", "v1", NoMeta), VideoRow("a2", "P2", "v1", NoMeta)}
  /\ shop_products = {}
  /\ blacklisted_products = {}
  /\ EnrichInit
  /\ pool = PoolIdle
  /\ ScraperInit
  /\ feed = {}
  /\ catalog \in StoreCatalogs
  /\ variants = {"single"}
  /\ CrawlInit
  /\ tiktok_handles = {}
  /\ deployed = {"runParallelEnrichment"}
  /\ source = DefaultSource
  /\ faulty = [p \in Processes |-> 0]
  /\ cycleCap = 0

SpecPool == PoolInit /\ [][PoolNext]_vars

\* SpecRace: runEnricher and the other enrichment variants (one worker) and
\* runParallelEnrichment, two processes, enrich the one product of the store
\* at the same time
RaceInit ==
  /\ entry = NoEntry
  /\ shop_videos = {VideoRow("a1", "P1", "v1", NoMeta)}
  /\ shop_products = {}
  /\ blacklisted_products = {}
  /\ EnrichInit
  /\ pool = PoolIdle
  /\ ScraperInit
  /\ feed = {}
  /\ catalog \in StoreCatalogs
  /\ variants = Variants
  /\ CrawlInit
  /\ tiktok_handles = {}
  /\ deployed = {"runParallelEnrichment"}
  /\ source = DefaultSource
  /\ faulty = [p \in Processes |-> 0]
  /\ cycleCap = 0

SpecRace == RaceInit /\ [][PoolNext \/ EnrichNext]_vars

\* SpecExtract: extractVideos applied to one raw entry, of any width, height
\* and duration of the model
ExtractInit ==
  /\ EmptyStore
  /\ feed = {}
  /\ catalog = [p \in Products |-> RespEmpty]
  /\ variants = {}
  /\ entry \in [pc : {"raw"}, width : Dims, height : Dims, duration : Durations,
                video_ratio : {""}, video_duration : {Absent}]

SpecExtract == ExtractInit /\ [][ExtractVideos]_vars

\* ------------------------------------------------------------------------
\* Claims about the store
\* ------------------------------------------------------------------------
InProgress(w, P) ==
  epid[w] = P /\ epc[w] \in {"cache", "fetch", "delete", "blacklist", "insert", "update"}

\* C1: Blacklist exclusion invariant. Whenever product P is in the blacklist
\* and no enrichment of P is in progress, no video row has product_id = P.
C1_BlacklistExclusion ==
  \A P \in blacklisted_products :
    (\A w \in Workers : ~InProgress(w, P)) =>
      \A v \in shop_videos : v.product_id # P

\* the enrichment of worker w returns in this step
Completes(w) == epc[w] # "done" /\ epc'[w] = "done"

\* C2: Cache-aside correctness. An enrichment of a product that had a cache
\* entry when it started and that returns without a store error has made no
\* upstream call, and at its return every video row referencing the product
\* carries the cache entry's four fields.
C2_CacheAside ==
  [][\A w \in Workers :
       (Completes(w) /\ ecached'[w] /\ ~eerr'[w]) =>
         /\ ecalls'[w] = 0
         /\ \A v \in shop_videos' :
              v.product_id = epid'[w] =>
                \E c \in shop_products' :
                  c.product_id = epid'[w] /\ MetaOf(v) = MetaOf(c)]_vars

UniquePerAweme(store) == \A r1, r2 \in store : r1.aweme_id = r2.aweme_id => r1 = r2

\* C6: Idempotent upsert. The store never holds two rows with one aweme_id
\* and never more rows than distinct aweme_ids were ingested; and right after
\* a successful upsert each row of the payload is stored exactly once, with
\* the payload's product_id and scraped columns.
C6_IdempotentUpsert ==
  /\ [](UniquePerAweme(shop_videos) /\ Cardinality(shop_videos) <= Cardinality(ingested))
  /\ [][(spc = "upsert" /\ spc' = "page" /\ ~supsertErr') =>
          \A row \in stoInsert :
            /\ Cardinality({r \in shop_videos' : r.aweme_id = row.aweme_id}) = 1
            /\ \A r \in shop_videos' :
                 r.aweme_id = row.aweme_id =>
                   r.product_id = row.product_id /\ r.ver = row.ver]_vars

\* an upsert has just replaced the scraped columns of a row ingested before,
\* and that row is the only one of its aweme_id
C6_Witness ==
  /\ spc = "page"
  /\ soverwrote
  /\ shop_videos # {}
  /\ UniquePerAweme(shop_videos)

\* ------------------------------------------------------------------------
\* Claims about the fetch routines and the scrapers
\* ------------------------------------------------------------------------
\* the configured retry constant of the call site of process p
MaxRetriesOf(p) ==
  CASE p = "fetch" -> IF fetcher.routine = "fetchProductDetailsWithRetry"
                      THEN MAX_PRODUCT_RETRIES ELSE MAX_RETRIES
    [] p = "hashtag" -> MAX_PAGE_ATTEMPTS
    [] p = "seq" -> MAX_RETRIES_PER_PAGE
    [] OTHER -> PAR_MAX_RETRIES_PER_PAGE

ExhaustedOutcomes == {"null", "thrown", "skipped", "givenUp"}

\* C3: Retry budget bound. A request of any fetch routine that has been
\* answered only with 5xx statuses has made at most 1 + max-retries wire
\* calls, is over once it has made that many, and when it is over its
\* outcome is an exhausted one (null, thrown error, page given up).
C3_RetryBudget ==
  \A p \in Processes :
    LET r == wire[p] IN
    (r.calls > 0 /\ r.n5xx = r.calls) =>
      /\ r.calls <= 1 + MaxRetriesOf(p)
      /\ (r.outcome = "pending" => r.calls < 1 + MaxRetriesOf(p))
      /\ (r.outcome # "pending" => r.outcome \in ExhaustedOutcomes)

\* fetchProductDetailsWithRetry has returned null after MAX_PRODUCT_RETRIES
\* calls that were all answered with a 5xx status
C3_Witness ==
  /\ fetcher.routine = "fetchProductDetailsWithRetry"
  /\ wire["fetch"].outcome = "null"
  /\ wire["fetch"].n5xx = MAX_PRODUCT_RETRIES
  /\ wire["fetch"].calls = MAX_PRODUCT_RETRIES

\* C4: a 429 never consumes the retry budget. A request of any fetch routine
\* that has been answered only with 429 statuses, however many, is still
\* being redispatched (so that a 200 that follows makes it succeed).
C4_RateLimitFree ==
  \A p \in Processes :
    LET r == wire[p] IN
    (r.calls > 0 /\ r.n429 = r.calls) => r.outcome = "pending"

\* C5: 404 and 403 are permanent in the fetch layer. No routine makes a wire
\* call for a request after a call of that request was answered 404 or 403
\* (so a request whose first answer is 404 makes exactly one call).
C5_PermanentFailure ==
  \A p \in Processes : wire[p].afterHard = 0

\* C7: Handle removal on inactivity. A handle whose stored no-posts streak
\* was zero and that has since been scraped successfully in 7 consecutive
\* cycles without a recent post is removed; after 6 such cycles it is active.
C7_RemovedAfterSeven ==
  \A r \in tiktok_handles :
    /\ (quiet[r.username] = INACTIVE_DAYS_THRESHOLD => r.status = "removed")
    /\ (quiet[r.username] = INACTIVE_DAYS_THRESHOLD - 1 => r.status = "active")

\* C8: when scrapeHandle (or scrapeHandleParallel) returns from an attempt
\* that received a 404, the handle is removed; from one that received a 403,
\* it is inactive (no status write having failed).
C8_PermanentStatus ==
  [][/\ (seq.pc \in {"finish", "stats"} /\ seq'.pc = "next" /\ ~seq'.werr) =>
          \A r \in tiktok_handles' :
            r.username = seq.handle.username =>
              /\ (404 \in seq.seen => r.status = "removed")
              /\ (403 \in seq.seen => r.status = "inactive")
     /\ \A u \in Usernames :
          (pworker[u].pc = "finish" /\ pworker'[u].pc = "done" /\ ~pworker'[u].werr) =>
            \A r \in tiktok_handles' :
              r.username = u =>
                /\ (404 \in pworker[u].seen => r.status = "removed")
                /\ (403 \in pworker[u].seen => r.status = "inactive")]_vars

\* C9: handle status transitions are one-way. No step takes a handle whose
\* stored status is removed or inactive back to active.
C9_OneWayStatus ==
  [][\A r \in tiktok_handles :
       r.status \in {"removed", "inactive"} =>
         \A n \in tiktok_handles' : n.username = r.username => n.status # "active"]_vars

\* C10: pagination stops at the end of a source. Once a successfully fetched
\* page had an empty entry list or has_more = 0, scrapeHashtag and
\* scrapeHandle make no further page request in that run.
C10_StopsAtEnd ==
  /\ hashtag.afterEnd = 0
  /\ seq.afterEnd = 0

\* ------------------------------------------------------------------------
\* Claims about the order of the page requests
\* ------------------------------------------------------------------------
\* the page requests of handle u that the RateLimitedQueue holds or is making
Outstanding(u) ==
  Cardinality({i \in DOMAIN queue : queue[i].handle = u})
    + (IF current.handle = u THEN 1 ELSE 0)

\* C11: pages of one source are requested strictly sequentially. A source
\* never has two page requests outstanding; every scrape starts at offset 0;
\* and the offset moves on by exactly COUNT, only in the step in which the
\* request for the offset before it completes (page fetched or given up).
C11_SequentialPages ==
  /\ [](\A u \in Usernames : Outstanding(u) <= 1)
  /\ [](hashtag.pc \in {"idle", "blacklist"} => hashtag.offset = 0)
  /\ [][/\ hashtag'.offset \in {hashtag.offset, hashtag.offset + COUNT}
        /\ (hashtag'.offset # hashtag.offset =>
              hashtag.pc = "page" /\ hashtag'.pageCount = hashtag.pageCount + 1)
        /\ (seq.pc # "page" /\ seq'.pc = "page" => seq'.offset = 0)
        /\ (seq.pc = "page" =>
              /\ seq'.offset \in {seq.offset, seq.offset + COUNT}
              /\ (seq'.offset # seq.offset => seq'.pageCount = seq.pageCount + 1))
        /\ \A i \in DOMAIN queue' :
             LET r == queue'[i] IN
             \/ \E j \in DOMAIN queue : queue[j] = r
             \/ r.offset = 0 /\ pworker[r.handle].pc = "off"
             \/ /\ current.handle = r.handle
                /\ r.offset = current.offset + COUNT
                /\ current'.handle = NULL
                /\ pworker'[r.handle].pagesScraped = pworker[r.handle].pagesScraped + 1]_vars

\* the queue is making the request for the second page of a handle, whose
\* first page has been fetched
C11_Witness ==
  /\ current.handle # NULL
  /\ current.offset = COUNT
  /\ pworker[current.handle].pagesScraped = 1
  /\ Outstanding(current.handle) = 1


\* ------------------------------------------------------------------------
\* Claims about the queues
\* ------------------------------------------------------------------------
\* C12: global pacing. Every wire call a rate-limited queue is about to make
\* (the request RateLimitedQueue has taken, the product ProductEnrichmentQueue
\* is fetching) starts at least REQUEST_INTERVAL after the completion of the
\* wire call the same queue made before it: the first call of a request
\* after processQueue's sleep, a further call for the same request after
\* the retry delay or the rate-limit backoff; with two handles adding their
\* requests to the same queue as with one.
C12_GlobalPacing ==
  /\ (current.handle # NULL /\ wire["par"] # NoWire => current.gap >= REQUEST_INTERVAL)
  /\ (fetcher.pc = "call" /\ fetcher.routine = "fetchProductDetails" /\ wire["fetch"] # NoWire
        => fetcher.gap >= REQUEST_INTERVAL)

\* a request taken right after the one before it, two callers having queued
C12_Witness ==
  /\ current.handle = "u2"
  /\ current.gap = REQUEST_INTERVAL
  /\ wire["par"].calls >= 1
  /\ \E i \in DOMAIN queue : queue[i].handle = "u1"


\* C13: in runParallelEnrichment at most one product-detail wire call is in
\* flight at every moment.
C13_OneInFlight == Cardinality(InFlight) <= 1


\* C14: permanently unfetchable product. When the enrichment of an uncached
\* product P ends after exhausted retries or a response without products and
\* the delete met no store error, no video references P and P is in the
\* blacklist; and P enters the blacklist only from an enrichment that has
\* issued its delete. Stated for enrichProductDirect, the variant
\* runParallelEnrichment runs.
C14_UnfetchableBlacklisted ==
  [][/\ \A p \in Products :
          (/\ pool.task[p].pc = "delete"
           /\ pool'.task[p].pc = "done"
           /\ shop_videos' = DeleteVideos(shop_videos, p))
          => /\ \A r \in shop_videos' : r.product_id # p
             /\ p \in blacklisted_products'
     /\ \A p \in blacklisted_products' \ blacklisted_products :
          pool.task[p].pc = "delete" \/ \E w \in Workers : epid[w] = p /\ epc[w] = "blacklist"]_vars


\* C15: the product cache is write-once. A shop_products row, once stored,
\* stays as it is whatever the enrichment variants do afterwards (a repeated
\* enrichment, two processes enriching the product at the same time), and no
\* two rows share a product id.
C15_WriteOnce ==
  /\ [][\A c \in shop_products : c \in shop_products']_vars
  /\ [](\A c1, c2 \in shop_products : c1.product_id = c2.product_id => c1 = c2)

\* runParallelEnrichment has issued its insert for P1 after a miss, and the
\* row stored for P1 is the other process's, with other fields
C15_Witness ==
  /\ pool.task["P1"].pc = "update"
  /\ ~pool.task["P1"].hit
  /\ \E c \in shop_products : c.product_id = "P1" /\ MetaOf(c) # pool.task["P1"].meta


\* C16: successful enrichment. When enrichProductDirect completes for a
\* product that was not cached, with the cache row stored and the update of
\* the videos applied, every video referencing the product carries the four
\* fields of the cache row; and in every state a video whose four display
\* fields are non-null agrees with the cache row of its product, if any.
C16_VideosMatchCache ==
  /\ [][\A p \in Products :
          (/\ pool.task[p].pc = "update" /\ pool'.task[p].pc = "done"
           /\ ~pool.task[p].hit
           /\ shop_videos' # shop_videos)
          => \A c \in shop_products', v \in shop_videos' :
               (c.product_id = p /\ v.product_id = p) => MetaOf(v) = MetaOf(c)]_vars
  /\ [](\A v \in shop_videos, c \in shop_products :
          (/\ v.product_id = c.product_id
           /\ v.product_name # NULL /\ v.product_image # NULL
           /\ v.price # NULL /\ v.shop_name # NULL)
          => MetaOf(v) = MetaOf(c))


\* ------------------------------------------------------------------------
\* Claims about the run loops
\* ------------------------------------------------------------------------
\* C17: each long-running cycle loops forever. No run ever leaves its loop:
\* the hashtag run never exits, and a handle scrape run or an enrichment run
\* that is between two iterations can start the next one (as long as the
\* model lets it run), whatever the store and the upstream answered before.
C17_LoopsForever ==
  /\ hashtag.pc # "exited"
  /\ (seq.pc = "idle" /\ "scrapeHandle" \in deployed /\ cycles["seq"] < cycleCap
        => ENABLED SeqDiscoverRead)
  /\ (par.pc = "idle" /\ "scrapeHandleParallel" \in deployed /\ cycles["par"] < cycleCap
        => ENABLED ParFetchHandles)
  /\ \A w \in Workers : epc[w] = "idle" /\ variants # {} => ENABLED RunQuery(w)


\* ------------------------------------------------------------------------
\* Claims about extractVideos
\* ------------------------------------------------------------------------
\* the greatest number that divides both a and b (a, b > 0)
GreatestCommonDivisor(a, b) ==
  CHOOSE g \in 1..a :
    /\ a % g = 0 /\ b % g = 0
    /\ \A d \in 1..a : (a % d = 0 /\ b % d = 0) => d <= g

\* C18: aspect ratio derivation. For every width w and height h, video_ratio
\* is "(w/g):(h/g)" with g the greatest common divisor of w and h when both
\* are non-zero (1920x1080 gives "16:9"), and the empty string when w or h is
\* zero or absent.
C18_AspectRatio ==
  entry.pc = "parsed" =>
    LET w == entry.width
        h == entry.height
    IN IF w \in {Absent, 0} \/ h \in {Absent, 0}
       THEN entry.video_ratio = ""
       ELSE /\ entry.video_ratio = ToString(w \div GreatestCommonDivisor(w, h)) \o ":"
                                     \o ToString(h \div GreatestCommonDivisor(w, h))
            /\ (w = 1920 /\ h = 1080 => entry.video_ratio = "16:9")

C18_Witness ==
  /\ entry.pc = "parsed"
  /\ entry.width = 1920 /\ entry.height = 1080
  /\ entry.video_ratio = "16:9"

\* C19: duration normalization. A raw duration d is kept when d <= 600, is
\* replaced by the integer nearest to d / 1000 when d > 600, and an absent
\* duration yields null; 15 gives 15 and 15000 gives 15.
C19_DurationNormalized ==
  entry.pc = "parsed" =>
    LET d == entry.duration
        n == entry.video_duration
    IN /\ (d = Absent => n = Absent)
       /\ (d # Absent /\ d <= 600 => n = d)
       /\ (d > 600 => /\ n # Absent
                      /\ 2 * (1000 * n - d) <= 1000
                      /\ 2 * (d - 1000 * n) <= 1000)
       /\ (d = 15000 => n = 15)

C19_Witness ==
  /\ entry.pc = "parsed"
  /\ entry.duration = 15000
  /\ entry.video_duration = 15


\* ------------------------------------------------------------------------
\* Claims about the pagination
\* ------------------------------------------------------------------------
\* this step is a wire call of process p that the upstream answers with st
Answered(p, st) ==
  /\ wire'[p] # wire[p]
  /\ wire'[p] = [Received(p, st) EXCEPT !.outcome = wire'[p].outcome]

\* C20: a permanent failure ends the source. When a page request of
\* scrapeHashtag or scrapeHandle is answered 404 or 403, or a page request of
\* scrapeHandleParallel is rejected with 404 or 403, the scraper is not
\* about to request another page of that source.
C20_PermanentFailureEnds ==
  [][\A st \in {404, 403} :
       /\ (Answered("hashtag", st) => hashtag'.pc # "page")
       /\ (Answered("seq", st) => seq'.pc # "page")
       /\ (Answered("par", st) /\ current'.handle = NULL
             => /\ pworker'[current.handle].pc # "await"
                /\ \A i \in DOMAIN queue' : queue'[i].handle # current.handle)]_vars

\* ------------------------------------------------------------------------
\* Claims about skipped pages, page caps and the request queues
\* ------------------------------------------------------------------------
\* the request of process p has just been given up with outcome o, no 404 or
\* 403 among its answers
GivenUp(p, o) ==
  /\ wire'[p] # wire[p]
  /\ wire'[p].outcome = o
  /\ wire'[p].hard = 0

\* C21: a page whose attempts all fail with transient errors is skipped, not
\* fatal: the scraper goes on to request offset + COUNT of the same source
\* (unless the page cap is reached), in scrapeHashtag, in scrapeHandle and in
\* scrapeHandleParallel
C21_SkippedNotFatal ==
  [][/\ (GivenUp("hashtag", "skipped")
           => /\ hashtag'.offset = hashtag.offset + COUNT
              /\ (hashtag'.pc = "page" \/ hashtag'.pageCount >= MAX_PAGES))
     /\ (GivenUp("seq", "givenUp")
           => /\ seq'.offset = seq.offset + COUNT
              /\ seq'.pc = "page")
     /\ (GivenUp("par", "thrown")
           => \E i \in DOMAIN queue' :
                /\ queue'[i].handle = current.handle
                /\ queue'[i].offset = current.offset + COUNT)]_vars

\* C22: every scrape of one source ends and keeps to the page cap, whatever
\* finite number of 429 answers it meets: scrapeHashtag processes at most
\* MAX_PAGES page slots, each costing at most MAX_PAGE_ATTEMPTS wire calls,
\* scrapeHandle fetches at most MAX_PAGES_PER_HANDLE pages, and a scrape that
\* is paging eventually returns
C22_PageCap ==
  /\ [](/\ hashtag.pageCount <= MAX_PAGES
        /\ seq.pageCount <= MAX_PAGES_PER_HANDLE
        /\ wire["hashtag"].calls <= MAX_PAGE_ATTEMPTS)
  /\ (hashtag.pc = "page" ~> hashtag.pc = "exited")
  /\ (seq.pc = "page" ~> seq.pc = "next")

\* both caps are reached, scrapeHandle's after 429 answers
C22_Witness ==
  \/ hashtag.pc = "exited" /\ hashtag.pageCount = MAX_PAGES
  \/ /\ seq.pc = "next" /\ seq.pageCount = MAX_PAGES_PER_HANDLE
     /\ 429 \in seq.seen

\* the product-detail call of ProductEnrichmentQueue is in flight
FetchInFlight == fetcher.pc = "call" /\ fetcher.routine = "fetchProductDetails"

\* C23: single dispatcher: a rate-limited queue has at most one processQueue
\* loop running at any time, however many callers have called addRequest /
\* addProduct, and the wire call in flight is the one of that loop
C23_SingleDispatcher ==
  /\ \A q \in Queues : /\ drain[q].loops <= 1
                       /\ (drain[q].processing <=> drain[q].loops = 1)
  /\ (current.handle # NULL => drain["par"].loops = 1)
  /\ (FetchInFlight => drain["fetch"].loops = 1)

\* two callers are waiting on the queue, one request in flight, one queued
C23_Witness ==
  /\ current.handle # NULL
  /\ queue # <<>>
  /\ \A u \in Usernames : pworker[u].pc = "await"
  /\ drain["par"].loops = 1

\* C24: no request is lost: the queue is never non-empty without a running
\* dispatcher, a caller that waits has exactly one request in the queue or in
\* flight and a caller that does not wait has none, and every caller that
\* waits on addRequest / addProduct eventually has its promise settled
C24_NoRequestLost ==
  /\ [](/\ (queue # <<>> => drain["par"].processing)
        /\ \A u \in Usernames :
             Outstanding(u) = IF pworker[u].pc = "await" THEN 1 ELSE 0)
  /\ \A u \in Usernames : (pworker[u].pc = "await" ~> pworker[u].pc = "finish")
  /\ (FetchInFlight ~> fetcher.pc = "returned")

\* a caller's next request was pushed when the loop had just found the queue
\* empty after the request before: the dispatcher runs again, nothing else
\* is queued or in flight
C24_Witness ==
  /\ current.handle = NULL
  /\ Len(queue) = 1
  /\ queue[1].pageNum = 2
  /\ drain["par"].processing
  /\ \E u \in Usernames : pworker[u].pc = "done"

\* C25: the queue is first in, first out: a push puts the request behind the
\* ones queued, the loop takes the request at the front, and it takes it only
\* when the request before has been settled
C25_Fifo ==
  [][/\ (current'.handle # NULL /\ current.handle # current'.handle
           => /\ current.handle = NULL
              /\ queue # <<>>
              /\ current'.handle = queue[1].handle
              /\ current'.offset = queue[1].offset
              /\ queue' = Tail(queue))
     /\ (current'.handle = current.handle \/ current'.handle = NULL
           => /\ Len(queue') >= Len(queue)
              /\ SubSeq(queue', 1, Len(queue)) = queue)]_vars

\* the first page of one handle is in flight, the second page of the other
\* handle, pushed later, waits
C25_Witness ==
  /\ current.handle # NULL
  /\ current.pageNum = 1
  /\ Len(queue) = 1
  /\ queue[1].pageNum = 2

\* ------------------------------------------------------------------------
\* Claims about the blacklist
\* ------------------------------------------------------------------------
\* C26: a product id enters blacklisted_products only when it is unfetchable:
\* the entry is written by an enrichment of that product whose fetch was
\* exhausted or whose response had no non-empty products array, never by one
\* that fetched and cached the metadata
C26_BlacklistOnlyUnfetchable ==
  [][\A P \in blacklisted_products' \ blacklisted_products :
       \E w \in Workers : /\ epid[w] = P
                          /\ efetch[w] \in {"exhausted", "malformed"}]_vars

\* C27: enrichment skips a product id that is already in the blacklist: a
\* step of an enrichment of such a product makes no upstream product-detail
\* call and changes nothing in the store
C27_SkipsBlacklisted ==
  [][\A w \in Workers :
       (epc'[w] # epc[w] /\ epid[w] # NULL /\ epid[w] \in blacklisted_products)
         => /\ ecalls'[w] <= ecalls[w]
            /\ UNCHANGED storeVars]_vars

\* C28: the scrapers never insert a blacklisted reference: no row upserted
\* into shop_videos has a product_id that is in blacklisted_products at the
\* time of the upsert, also when the id was blacklisted after the run loaded
\* its blacklist and when loading the blacklist failed
C28_NeverInsertsBlacklisted ==
  [][(spc = "upsert" /\ spc' = "page" /\ ~supsertErr')
       => \A row \in stoInsert : row.product_id \notin blacklisted_products]_vars

\* ------------------------------------------------------------------------
\* Claims about the handle lifecycle thresholds
\* ------------------------------------------------------------------------
\* C29: the failure threshold sets a handle inactive only when
\* MAX_CONSECUTIVE_FAILURES consecutive failures have accumulated in the
\* scrape, 429 answers not counted: with fewer, the status write that follows
\* the paging of scrapeHandle does not happen
C29_FailureThreshold ==
  [][(seq.pc = "finish" /\ tiktok_handles' # tiktok_handles
        /\ \E r \in tiktok_handles' : r.username = seq.handle.username /\ r.status = "inactive")
       => wire["seq"].calls - wire["seq"].n429 >= MAX_CONSECUTIVE_FAILURES]_vars

\* the row of handle u in a tiktok_handles table
RowOf(table, u) == CHOOSE r \in table : r.username = u

\* updateHandleStats has just written the row of u: by scrapeHandle, or by
\* scrapeHandleParallel
StatsWritten(u) ==
  /\ tiktok_handles' # tiktok_handles
  /\ \E r \in tiktok_handles : r.username = u
  /\ \/ seq.pc = "stats" /\ seq.handle.username = u
     \/ pworker[u].pc = "finish" /\ pworker'[u].pc = "done" /\ pworker[u].scrapeSuccess

\* the commerce-tagged videos the scrape of u has found
ShopFound(u) ==
  IF seq.pc = "stats" /\ seq.handle.username = u THEN seq.shopVideosThisScrape
  ELSE pworker[u].shopVideosThisScrape

\* C30: no-shop removal, in both handle scrapers: a successful scrape that
\* found no commerce-tagged video leaves the no-shop streak one higher, one
\* that found some resets it to 0, and, no other removal rule applying, the
\* handle is set to removed exactly when the new streak is at least
\* NO_SHOP_DAYS_THRESHOLD
C30_NoShopRemoval ==
  [][\A u \in Usernames :
       StatsWritten(u) =>
         LET before == RowOf(tiktok_handles, u)
             after == RowOf(tiktok_handles', u)
         IN /\ after.consecutive_days_no_shop =
                 IF ShopFound(u) > 0 THEN 0 ELSE before.consecutive_days_no_shop + 1
            /\ ((/\ before.status = "active"
                 /\ after.consecutive_days_no_posts < INACTIVE_DAYS_THRESHOLD
                 /\ ~(LowRatio(after.shop_videos_found, after.total_videos_found)
                        /\ after.total_videos_found > MIN_VIDEOS_FOR_RATIO))
                  => (after.status = "removed"
                        <=> after.consecutive_days_no_shop >= NO_SHOP_DAYS_THRESHOLD))]_vars

\* C31: low-ratio removal, in both handle scrapers: a successful scrape that
\* leaves the cumulative total above MIN_VIDEOS_FOR_RATIO with fewer than
\* MIN_SHOP_RATIO_PERCENT per cent shop videos sets the handle to removed,
\* and a handle whose cumulative total is at most MIN_VIDEOS_FOR_RATIO is not
\* removed by that write when no streak threshold is reached
C31_LowRatioRemoval ==
  [][\A u \in Usernames :
       StatsWritten(u) =>
         LET before == RowOf(tiktok_handles, u)
             after == RowOf(tiktok_handles', u)
             low == 100 * after.shop_videos_found
                      < MIN_SHOP_RATIO_PERCENT * after.total_videos_found
         IN /\ (after.total_videos_found > MIN_VIDEOS_FOR_RATIO /\ low
                  => after.status = "removed")
            /\ ((/\ after.total_videos_found <= MIN_VIDEOS_FOR_RATIO
                 /\ before.status = "active"
                 /\ after.consecutive_days_no_posts < INACTIVE_DAYS_THRESHOLD
                 /\ after.consecutive_days_no_shop < NO_SHOP_DAYS_THRESHOLD)
                  => after.status = "active")]_vars

\* ------------------------------------------------------------------------
\* Claims about the audit log and the handle records
\* ------------------------------------------------------------------------
\* the rows a step adds to handle_scrape_history
Appended == handle_scrape_history' \ handle_scrape_history

\* the scrape attempt of process p ended on an error: its last page request
\* was answered 404 or 403 or was given up, or the failure limit was hit
EndedOnError(p) ==
  \/ wire[p].outcome \in {"notfound", "forbidden", "givenUp", "thrown"}
  \/ p = "seq" /\ seq.consecutiveFailures >= MAX_CONSECUTIVE_FAILURES

\* C32: one audit entry per scrape attempt: the step in which scrapeHandle or
\* scrapeHandleParallel logs its result appends, when the insert is accepted,
\* exactly one handle_scrape_history row, for the handle scraped, whose
\* success flag is false when the attempt ended on an error; and no other
\* step appends a row
C32_OneAuditEntry ==
  [][/\ (seq.pc = "finish" /\ seq'.pc # "finish")
          => /\ Cardinality(Appended) <= 1
             /\ \A e \in Appended :
                  /\ e.username = seq.handle.username
                  /\ (EndedOnError("seq") => ~e.success)
     /\ \A u \in Usernames :
          (pworker[u].pc = "finish" /\ pworker'[u].pc = "done")
            => /\ Cardinality(Appended) <= 1
               /\ \A e \in Appended :
                    /\ e.username = u
                    /\ (EndedOnError("par") => ~e.success)
     /\ (Appended # {}
           => \/ seq.pc = "finish"
              \/ \E u \in Usernames : pworker[u].pc = "finish")]_vars

\* the author usernames of shop_videos that have no tiktok_handles row
Untracked ==
  {Author(v.aweme_id) : v \in shop_videos} \ {r.username : r \in tiktok_handles}

\* C33: handle discovery only adds: discoverHandlesFromVideos inserts one row
\* for each author username of shop_videos that has no tiktok_handles row,
\* with status active, discovery source hashtag and all counters zero, and
\* leaves every stored row as it is, whatever its status; a discovery that
\* finds every author tracked inserts nothing
C33_DiscoveryOnlyAdds ==
  /\ [](seq.pc = "insert" => seq.newUsernames = Untracked /\ Untracked # {})
  /\ [][seq.pc = "insert" =>
          /\ \A r \in tiktok_handles : r \in tiktok_handles'
          /\ {r.username : r \in tiktok_handles' \ tiktok_handles} = Untracked
          /\ \A r \in tiktok_handles' \ tiktok_handles :
               /\ r.status = "active"
               /\ r.discovery_source = "hashtag"
               /\ r.total_videos_found = 0 /\ r.shop_videos_found = 0
               /\ r.shop_ratio.num = 0
               /\ r.consecutive_days_no_shop = 0 /\ r.consecutive_days_no_posts = 0]_vars
  /\ [][(seq.pc = "idle" /\ seq'.pc = "fetch") =>
          Untracked = {} /\ tiktok_handles' = tiktok_handles]_vars

\* the second discovery has found nothing to add: u2, inserted by the first,
\* is tracked, and u1, removed in the first cycle, is as the scrape left it
C33_Witness ==
  /\ cycles["seq"] = 1
  /\ seq.pc = "fetch"
  /\ \E r \in tiktok_handles : r.username = "u2" /\ r.total_videos_found > 0
  /\ \E r \in tiktok_handles : r.username = "u1" /\ r.status = "removed"


\* ------------------------------------------------------------------------
\* Claims about store errors, the handle statistics and the worker pools
\* ------------------------------------------------------------------------

\* worker w takes a step of its enrichment
Steps(w) == epc'[w] # epc[w]

\* C34: store errors do not stall a cycle: once a store operation of the
\* enrichment of one product has returned an error, that enrichment issues no
\* further store write and returns, and the run loop goes on to the next
\* product; a rejected page upsert leaves the scraper at its next page
C34_StoreErrorAbandons ==
  /\ [][\A w \in Workers :
          (eerr[w] /\ Steps(w)) =>
             /\ epc[w] = "done"
             /\ epc'[w] = "pick"
             /\ UNCHANGED storeVars]_vars
  /\ [](supsertErr => spc = "page" /\ stoInsert = {})

\* C35: shop ratio invariant: on every handle row shop_videos_found is at
\* most total_videos_found and the stored shop_ratio is their quotient (0
\* when the total is 0, hence between 0 and 1), and no step of a scrape cycle
\* decreases either counter
C35_ShopRatio ==
  /\ [](\A r \in tiktok_handles :
          /\ r.shop_videos_found <= r.total_videos_found
          /\ r.shop_ratio.den > 0
          /\ 0 <= r.shop_ratio.num /\ r.shop_ratio.num <= r.shop_ratio.den
          /\ IF r.total_videos_found > 0
             THEN r.shop_ratio.num * r.total_videos_found
                    = r.shop_videos_found * r.shop_ratio.den
             ELSE r.shop_ratio.num = 0)
  /\ [][\A r \in tiktok_handles : \A q \in tiktok_handles' :
          q.username = r.username =>
            /\ q.total_videos_found >= r.total_videos_found
            /\ q.shop_videos_found >= r.shop_videos_found]_vars

\* a successful cycle has added shop and other videos to a handle
\* whose counters were already positive
C35_Witness ==
  \E r \in tiktok_handles, h \in RatioHandles :
     /\ r.username = h.username
     /\ r.total_videos_found > h.total_videos_found + 1
     /\ r.shop_videos_found > h.shop_videos_found
     /\ r.shop_videos_found - h.shop_videos_found < r.total_videos_found - h.total_videos_found
     /\ h.total_videos_found = MIN_VIDEOS_FOR_RATIO
     /\ \E e \in handle_scrape_history : e.username = r.username /\ e.success


\* ------------------------------------------------------------------------
\* The chunk loops of runParallelScrapeLoop (parallel handle scraper) and
\* runParallelEnrichment (index.ts), with each scrapeHandleParallel /
\* enrichProductDirect promise taken as one task that is pending until it
\* settles. Rows are numbered; a task is named by its position in the list.
\* ------------------------------------------------------------------------
MaxTasks == 11
CONCURRENT_HANDLES == 10
CONCURRENT_PRODUCTS == 10
BATCH_SIZE == 100

\* positions of a list of rows (a query may return one row more than ids)
TaskIds == 1..(MaxTasks + 1)

\* a slice that runs to the end of the list
SliceToEnd(s, from, to) ==
  IF from >= Len(s) THEN <<>> ELSE SubSeq(s, from + 1, Len(s))

\* Array.prototype.slice(from, to), indices from 0
Slice(s, from, to) ==
  IF from >= Len(s) THEN <<>>
  ELSE SubSeq(s, from + 1, IF to < Len(s) THEN to ELSE Len(s))

\* Array.from(new Set(rows)): the first occurrence of each value, in order
RECURSIVE ArrayFromSet(_)
ArrayFromSet(rows) ==
  IF rows = <<>> THEN <<>>
  ELSE LET init == ArrayFromSet(SubSeq(rows, 1, Len(rows) - 1))
           last == rows[Len(rows)]
       IN IF \E k \in DOMAIN init : init[k] = last THEN init ELSE Append(init, last)

\* the rows a query returns: n usernames (UNIQUE in tiktok_handles), or the
\* product ids of the videos that need enrichment, where several videos may
\* carry the same product
HandleRows == {[k \in 1..n |-> k] : n \in 0..MaxTasks}
MissingRows == HandleRows \cup {[k \in 1..n |-> k] \o <<1>> : n \in 1..MaxTasks}

\* runParallelScrapeLoop after fetchPrioritizedHandles and fetchBlacklistedIds
HandlesLoop(handles) ==
  [pc |-> "batch", handles |-> handles, blacklist |-> {}, i |-> 0, j |-> 0,
   running |-> {}, started |-> <<>>]

\* runParallelEnrichment before its query, which will return rows
ProductsLoop(rows) ==
  [pc |-> "query", missingRows |-> rows, ids |-> <<>>, i |-> 0,
   running |-> {}, started |-> <<>>]

chunkFrame == <<storeVars, enrichVars, scraperVars, envVars, entry, handleStore, fetcher,
                hashtag, seq, pworker, queue, current, drain, wire, served, cycles, quiet,
                crawlEnv>>

\* for (let i = 0; i < handles.length; i += BATCH_SIZE): the loop test
HandlesBatch ==
  /\ "scrapeHandleParallel" \in deployed
  /\ par.pc = "batch"
  /\ par' = IF par.i < Len(par.handles)
            THEN [par EXCEPT !.pc = "chunk", !.j = 0, !.started = <<>>]
            ELSE [par EXCEPT !.pc = "idle"]
  /\ UNCHANGED <<pool, chunkFrame>>

\* for (let j = 0; j < batch.length; j += CONCURRENT_HANDLES): the loop test,
\* and chunk.map(handle => scrapeHandleParallel(handle, blacklist))
HandlesChunk ==
  /\ par.pc = "chunk"
  /\ LET batch == Slice(par.handles, par.i, par.i + BATCH_SIZE)
         chunk == Slice(batch, par.j, par.j + CONCURRENT_HANDLES)
     IN IF par.j < Len(batch)
        THEN par' = [par EXCEPT !.pc = "await",
                                !.running = {par.i + par.j + k : k \in DOMAIN chunk},
                                !.started = @ \o chunk]
        ELSE par' = [par EXCEPT !.pc = "batch", !.i = @ + BATCH_SIZE]
  /\ UNCHANGED <<pool, chunkFrame>>

\* one scrapeHandleParallel promise settles
HandleSettles(k) ==
  /\ k \in par.running
  /\ par' = [par EXCEPT !.running = @ \ {k}]
  /\ UNCHANGED <<pool, chunkFrame>>

\* await Promise.allSettled(chunkPromises)
HandlesSettled ==
  /\ par.pc = "await"
  /\ par.running = {}
  /\ par' = [par EXCEPT !.pc = "chunk", !.j = @ + CONCURRENT_HANDLES]
  /\ UNCHANGED <<pool, chunkFrame>>

\* while (hasMore): the query, the deduplication; no row ends the loop
ProductsQuery ==
  /\ "runParallelEnrichment" \in deployed
  /\ pool.pc = "query"
  /\ \E ok \in BOOLEAN :
       IF ~ok THEN UNCHANGED pool
       ELSE IF pool.missingRows = <<>> THEN pool' = [pool EXCEPT !.pc = "ended"]
       ELSE pool' = [pool EXCEPT !.pc = "chunk", !.ids = ArrayFromSet(pool.missingRows),
                                 !.missingRows = <<>>, !.i = 0, !.started = <<>>]
  /\ UNCHANGED <<par, chunkFrame>>

\* for (let i = 0; i < uniqueProductIds.length; i += CONCURRENT_PRODUCTS):
\* the loop test, and chunk.map(productId => enrichProductDirect(productId))
ProductsChunk ==
  /\ pool.pc = "chunk"
  /\ LET chunk == Slice(pool.ids, pool.i, pool.i + CONCURRENT_PRODUCTS)
     IN IF pool.i < Len(pool.ids)
        THEN pool' = [pool EXCEPT !.pc = "await",
                                  !.running = {pool.i + k : k \in DOMAIN chunk},
                                  !.started = @ \o chunk]
        ELSE pool' = [pool EXCEPT !.pc = "query"]
  /\ UNCHANGED <<par, chunkFrame>>

\* one enrichProductDirect promise settles
ProductSettles(k) ==
  /\ k \in pool.running
  /\ pool' = [pool EXCEPT !.running = @ \ {k}]
  /\ UNCHANGED <<par, chunkFrame>>

\* await Promise.allSettled(promises), the counters and the sleep
ProductsSettled ==
  /\ pool.pc = "await"
  /\ pool.running = {}
  /\ pool' = [pool EXCEPT !.pc = "chunk", !.i = @ + CONCURRENT_PRODUCTS]
  /\ UNCHANGED <<par, chunkFrame>>

ChunkNext ==
  \/ HandlesBatch
  \/ HandlesChunk
  \/ \E k \in TaskIds : HandleSettles(k)
  \/ HandlesSettled
  \/ ProductsQuery
  \/ ProductsChunk
  \/ \E k \in TaskIds : ProductSettles(k)
  \/ ProductsSettled

\* SpecChunks: one of the two loops runs over a list of up to MaxTasks rows
ChunksInit ==
  /\ entry = NoEntry
  /\ shop_videos = {}
  /\ shop_products = {}
  /\ blacklisted_products = {}
  /\ EnrichInit
  /\ ScraperInit
  /\ feed = {}
  /\ catalog \in {[p \in Products |-> RespFull]}
  /\ variants = {"single"}
  /\ handle_scrape_history = {}
  /\ tiktok_handles = {}
  /\ fetcher = FetcherIdle
  /\ hashtag = HashtagIdle
  /\ seq = SeqIdle
  /\ pworker = [u \in Usernames |-> WorkerOff]
  /\ queue = <<>>
  /\ current = NoRequest
  /\ drain = [q \in Queues |-> DrainIdle]
  /\ wire = [p \in Processes |-> NoWire]
  /\ served = [p \in Processes |-> 0]
  /\ cycles = [p \in Processes |-> 0]
  /\ quiet = [u \in Usernames |-> 0]
  /\ source = DefaultSource
  /\ faulty = [p \in Processes |-> 0]
  /\ cycleCap = 0
  /\ \/ /\ deployed = {"scrapeHandleParallel"}
        /\ par \in {HandlesLoop(h) : h \in HandleRows}
        /\ pool = ProductsLoop(<<>>)
     \/ /\ deployed = {"runParallelEnrichment"}
        /\ par = HandlesLoop(<<>>)
        /\ pool \in {ProductsLoop(r) : r \in MissingRows}

SpecChunks == ChunksInit /\ [][ChunkNext]_vars

\* no value occurs twice in the list
NoRepeat(s) == \A a, b \in DOMAIN s : a # b => s[a] # s[b]

\* C36: bounded worker pool: at most CONCURRENT_HANDLES scrapeHandleParallel
\* tasks and at most CONCURRENT_PRODUCTS enrichProductDirect tasks are pending
\* at any time, tasks start only when no task of the chunk before is pending,
\* and no handle or product id is given to two tasks of one batch
C36_BoundedPool ==
  /\ [](/\ Cardinality(par.running) <= CONCURRENT_HANDLES
        /\ Cardinality(pool.running) <= CONCURRENT_PRODUCTS
        /\ NoRepeat(par.started)
        /\ NoRepeat(pool.started))
  /\ [][/\ (par'.running \ par.running # {} => par.running = {})
        /\ (pool'.running \ pool.running # {} => pool.running = {})]_vars

\* the second chunk of a batch of more than CONCURRENT_PRODUCTS product ids,
\* taken from rows that named one product twice, is pending
C36_Witness ==
  /\ pool.pc = "await"
  /\ pool.i = CONCURRENT_PRODUCTS
  /\ pool.running # {}
  /\ Len(pool.started) = Len(pool.ids)
  /\ Len(pool.ids) > CONCURRENT_PRODUCTS


\* ------------------------------------------------------------------------
\* extractor.ts extractVideos over whole pages: the flattening of the
\* aweme_list of each page and the filter on aweme_id
\* ------------------------------------------------------------------------
MaxAwemeList == 2

\* raw entries: aweme_id missing (NULL), empty, or an id
RawVideos == [aweme_id : {NULL, ""} \cup Awemes, width : {1080}, height : {1920},
              duration : {15000}]
\* a response with no aweme_list, or with a list of up to MaxAwemeList entries
ResponsePages ==
  {[has_more |-> FALSE]} \cup
  {[has_more |-> TRUE, aweme_list |-> l] :
     l \in UNION {[1..n -> RawVideos] : n \in 0..MaxAwemeList}}
\* the argument of extractVideos: no page, one page or two
PageLists == UNION {[1..n -> ResponsePages] : n \in 0..2}

\* page.aweme_list ?? []
AwemeList(page) == IF "aweme_list" \in DOMAIN page THEN page.aweme_list ELSE <<>>

\* for (const page of pages) videos.push(...(page.aweme_list ?? []))
RECURSIVE Videos(_)
Videos(pages) ==
  IF pages = <<>> THEN <<>>
  ELSE Videos(SubSeq(pages, 1, Len(pages) - 1)) \o AwemeList(pages[Len(pages)])

\* a loop that skips no entry
AnyEntry(v) == TRUE

\* the entries that pass if (!v?.aweme_id) continue
HasAwemeId(v) == v.aweme_id # NULL /\ v.aweme_id # ""

\* output.push({ aweme_id, ..., video_duration, video_ratio, ... })
ParsedVideo(v) ==
  [aweme_id |-> v.aweme_id, video_ratio |-> VideoRatio(v.width, v.height),
   video_duration |-> VideoDuration(v.duration)]

extractVideos(pages) ==
  LET kept == SelectSeq(Videos(pages), HasAwemeId)
  IN [k \in DOMAIN kept |-> ParsedVideo(kept[k])]

NoCall == [pc |-> "pages", pages |-> <<>>, output |-> <<>>, again |-> <<>>]

\* a caller passes pages to extractVideos
ExtractCall ==
  /\ entry.pc = "pages"
  /\ entry' = [entry EXCEPT !.pc = "once", !.output = extractVideos(entry.pages)]
  /\ UNCHANGED <<storeVars, enrichVars, scraperVars, envVars, pool, crawlVars>>

\* the caller passes the same pages once more
ExtractAgain ==
  /\ entry.pc = "once"
  /\ entry' = [entry EXCEPT !.pc = "twice", !.again = extractVideos(entry.pages)]
  /\ UNCHANGED <<storeVars, enrichVars, scraperVars, envVars, pool, crawlVars>>

PagesInit ==
  /\ EmptyStore
  /\ feed = {}
  /\ catalog = [p \in Products |-> RespEmpty]
  /\ variants = {}
  /\ entry \in {[NoCall EXCEPT !.pages = pages] : pages \in PageLists}

SpecPages == PagesInit /\ [][ExtractCall \/ ExtractAgain]_vars

\* ------------------------------------------------------------------------
\* Claims about extractVideos over pages
\* ------------------------------------------------------------------------
\* the positions <<page, index>> of the raw entries that carry an aweme_id
KeptPositions ==
  {pos \in (DOMAIN entry.pages) \X (1..(MaxAwemeList + 1)) :
     /\ "aweme_list" \in DOMAIN entry.pages[pos[1]]
     /\ pos[2] \in DOMAIN entry.pages[pos[1]].aweme_list
     /\ entry.pages[pos[1]].aweme_list[pos[2]].aweme_id \in Awemes}

\* how many kept entries come no later than position pos in the input
RankOf(pos) ==
  Cardinality({q \in KeptPositions :
                 q[1] < pos[1] \/ (q[1] = pos[1] /\ q[2] <= pos[2])})

StatsOf(r) ==
  <<r.total_videos_found, r.shop_videos_found, r.shop_ratio,
    r.consecutive_days_no_shop, r.consecutive_days_no_posts>>

\* C38: a failed scrape attempt leaves the handle's statistics unchanged: no
\* step that scrapeHandle or scrapeHandleParallel takes after its attempt
\* ended on an error (404, 403, a page given up, a thrown request, the
\* failure limit) changes the counters, the ratio or the streaks of the
\* handle's row
C38_FailedKeepsStats ==
  [][/\ (seq.pc \in {"finish", "stats"} /\ EndedOnError("seq"))
          => \A r \in tiktok_handles : \E q \in tiktok_handles' :
               q.username = r.username /\ StatsOf(q) = StatsOf(r)
     /\ \A u \in Usernames :
          (pworker[u].pc = "finish" /\ pworker'[u].pc = "done" /\ EndedOnError("par"))
            => \A r \in tiktok_handles : \E q \in tiktok_handles' :
                 q.username = r.username /\ StatsOf(q) = StatsOf(r)]_vars

\* ------------------------------------------------------------------------
\* SpecEnricher: runEnricher alone (enricher.ts) on a store that holds two
\* videos of two products and receives no new video
\* ------------------------------------------------------------------------
EnricherInit ==
  /\ entry = NoEntry
  /\ shop_videos = {VideoRow("a1", "P1", "v1", NoMeta), VideoRow("a2", "P2", "v1", NoMeta)}
  /\ shop_products = {}
  /\ blacklisted_products = {}
  /\ EnrichInit
  /\ pool = PoolIdle
  /\ ScraperInit
  /\ feed = {}
  /\ catalog \in StoreCatalogs
  /\ variants = {"single"}
  /\ CrawlOff

SpecEnricher == EnricherInit /\ [][EnrichNext]_vars

\* C39: enrichment makes progress: when enrichSingleProduct(P) returns and
\* none of its store calls returned an error, no video referencing P is
\* selected by runEnricher's "needs enrichment" query any more, so that the
\* loop, with no new video arriving, runs out of product ids
C39_EnrichmentSettles ==
  \A w \in Workers :
    (epc[w] = "done" /\ evariant[w] = "single" /\ ~eerr[w])
      => epid[w] \notin MissingSingle(shop_videos)

\* C40: re-ingestion does not undo enrichment: an upsert of the scrapers
\* leaves product_name, product_image, price and shop_name of every row that
\* was stored as they were, and the only step that changes these fields of a
\* stored row is the update of an enrichment
C40_UpsertKeepsEnrichment ==
  /\ [][(spc = "upsert" /\ spc' = "page") =>
          \A r \in shop_videos :
            r.aweme_id \in Ids(stoInsert) =>
              \E q \in shop_videos' : q.aweme_id = r.aweme_id /\ MetaOf(q) = MetaOf(r)]_vars
  /\ [][\A r \in shop_videos : \A q \in shop_videos' :
          (q.aweme_id = r.aweme_id /\ MetaOf(q) # MetaOf(r))
            => \E w \in Workers : /\ epc[w] = "update"
                                  /\ epc'[w] # "update"
                                  /\ epid[w] = r.product_id]_vars

\* a video that was enriched as a video of P1 has been ingested again, now
\* with product P2, which no enrichment can fill, and still carries the
\* fields of its enrichment
C40_Witness ==
  /\ spc = "page"
  /\ soverwrote
  /\ \E r \in shop_videos :
       /\ r.product_id = "P2"
       /\ MetaOf(r) = ExtractMeta("single", RespFull)
  /\ catalog["P2"] = RespEmpty

====
